---- MODULE Spec2Model ----
(***************************************************************************)
(* Model of Emoji-Encrypt-x: the password-based AES-256-GCM routine        *)
(* (lib/crypto), the byte <-> emoji codec (lib/emoji-encoder, and its      *)
(* normalising copy at the end of app/page.tsx) and the page's handlers.   *)
(*                                                                         *)
(* Strings are sequences of integers: UTF-16 code units for texts and      *)
(* passwords, char codes 0..255 for binary/base64/JSON strings, and code   *)
(* points for emoji strings (every operation the code applies to an emoji  *)
(* string - Array.from, normalize, replace(/\s/g), join - works on whole   *)
(* code points).                                                           *)
(***************************************************************************)
EXTENDS Integers, Sequences, FiniteSets, TLC

(***************************************************************************)
(* Results of calls that may throw.                                        *)
(***************************************************************************)
Ok(v) == [ok |-> TRUE, val |-> v, err |-> ""]
Err(m) == [ok |-> FALSE, val |-> <<>>, err |-> m]

Range(s) == {s[i] : i \in 1..Len(s)}
Min2(a, b) == IF a < b THEN a ELSE b

\* The concatenation of the sequences ss[from..to] (halving the range keeps
\* the evaluation depth logarithmic).
RECURSIVE FlattenRange(_, _, _)
FlattenRange(ss, from, to) ==
  IF from > to THEN <<>>
  ELSE IF from = to THEN ss[from]
  ELSE LET mid == (from + to) \div 2
       IN  FlattenRange(ss, from, mid) \o FlattenRange(ss, mid + 1, to)
Flatten(ss) == FlattenRange(ss, 1, Len(ss))

RECURSIVE SeqsUpTo(_, _)
SeqsUpTo(S, n) ==
  IF n = 0 THEN {<<>>}
  ELSE LET shorter == SeqsUpTo(S, n - 1)
       IN  shorter \cup {Append(s, x) : s \in shorter, x \in S}

(***************************************************************************)
(* Bit operations on bytes.                                                *)
(***************************************************************************)
Bit(x, k) == (x \div (2 ^ k)) % 2
Xor8(a, b) ==
  LET d(k) == ((Bit(a, k) + Bit(b, k)) % 2) * (2 ^ k)
  IN  d(0) + d(1) + d(2) + d(3) + d(4) + d(5) + d(6) + d(7)
FlipBit(x, k) == IF Bit(x, k) = 1 THEN x - 2 ^ k ELSE x + 2 ^ k
FlipBitAt(bytes, i, k) == [bytes EXCEPT ![i] = FlipBit(bytes[i], k)]

(***************************************************************************)
(* btoa / atob (the platform's base64, used by both libraries).            *)
(***************************************************************************)
\* '=' (char code 61) pads the last group.
IsPad(c) == c = 61
AsciiWhitespace == {9, 10, 12, 13, 32}
B64Char(v) ==
  IF v < 26 THEN 65 + v
  ELSE IF v < 52 THEN 97 + (v - 26)
  ELSE IF v < 62 THEN 48 + (v - 52)
  ELSE IF v = 62 THEN 43 ELSE 47
B64Val(c) ==
  IF c \in 65..90 THEN c - 65
  ELSE IF c \in 97..122 THEN c - 97 + 26
  ELSE IF c \in 48..57 THEN c - 48 + 52
  ELSE IF c = 43 THEN 62
  ELSE IF c = 47 THEN 63 ELSE -1

\* btoa(binary): throws on a char code above 255.
btoa(s) ==
  IF \E i \in 1..Len(s) : s[i] > 255 THEN Err("InvalidCharacterError")
  ELSE
    LET n == Len(s)
        at(i) == IF i <= n THEN s[i] ELSE 0
        ch(j) ==
          LET g == (j - 1) \div 4
              k == (j - 1) % 4
              b0 == at(3 * g + 1)
              b1 == at(3 * g + 2)
              b2 == at(3 * g + 3)
          IN  CASE k = 0 -> B64Char(b0 \div 4)
                [] k = 1 -> B64Char((b0 % 4) * 16 + (b1 \div 16))
                [] k = 2 -> IF 3 * g + 2 > n THEN 61
                            ELSE B64Char((b1 % 16) * 4 + (b2 \div 64))
                [] k = 3 -> IF 3 * g + 3 > n THEN 61
                            ELSE B64Char(b2 % 64)
    IN  Ok([j \in 1..(4 * ((n + 2) \div 3)) |-> ch(j)])

\* atob(base64): the forgiving base64 decode; throws on a malformed string.
atob(s) ==
  LET t == SelectSeq(s, LAMBDA c : c \notin AsciiWhitespace)
      n == Len(t)
      cut == IF n > 0 /\ n % 4 = 0
             THEN (IF IsPad(t[n])
                   THEN (IF IsPad(t[n - 1]) THEN 2 ELSE 1) ELSE 0)
             ELSE 0
      u == SubSeq(t, 1, n - cut)
      m == Len(u)
      v(i) == B64Val(u[i])
      nbytes == (m \div 4) * 3 + (IF m % 4 = 0 THEN 0 ELSE (m % 4) - 1)
      byte(j) ==
        LET g == (j - 1) \div 3
            k == (j - 1) % 3
            c0 == v(4 * g + 1)
            c1 == v(4 * g + 2)
            c2 == IF 4 * g + 3 <= m THEN v(4 * g + 3) ELSE 0
            c3 == IF 4 * g + 4 <= m THEN v(4 * g + 4) ELSE 0
        IN  CASE k = 0 -> c0 * 4 + (c1 \div 16)
              [] k = 1 -> (c1 % 16) * 16 + (c2 \div 4)
              [] k = 2 -> (c2 % 4) * 64 + c3
  IN  IF m % 4 = 1 \/ (\E i \in 1..m : v(i) = -1)
      THEN Err("InvalidCharacterError")
      ELSE Ok([j \in 1..nbytes |-> byte(j)])

(***************************************************************************)
(* TextEncoder.encode / TextDecoder.decode (UTF-8) on UTF-16 code units.   *)
(***************************************************************************)
IsHighSurrogate(u) == u \in 55296..56319
IsLowSurrogate(u) == u \in 56320..57343
Utf8OfCodePoint(cp) ==
  IF cp < 128 THEN <<cp>>
  ELSE IF cp < 2048 THEN <<192 + (cp \div 64), 128 + (cp % 64)>>
  ELSE IF cp < 65536
       THEN <<224 + (cp \div 4096), 128 + ((cp \div 64) % 64), 128 + (cp % 64)>>
  ELSE <<240 + (cp \div 262144), 128 + ((cp \div 4096) % 64),
         128 + ((cp \div 64) % 64), 128 + (cp % 64)>>

\* A lone surrogate is encoded as U+FFFD (the string is converted to a
\* USVString first).
RECURSIVE TextEncode(_)
TextEncode(s) ==
  IF s = <<>> THEN <<>>
  ELSE IF IsHighSurrogate(s[1]) /\ Len(s) >= 2 /\ IsLowSurrogate(s[2])
       THEN Utf8OfCodePoint(65536 + (s[1] - 55296) * 1024 + (s[2] - 56320))
              \o TextEncode(SubSeq(s, 3, Len(s)))
  ELSE IF IsHighSurrogate(s[1]) \/ IsLowSurrogate(s[1])
       THEN Utf8OfCodePoint(65533) \o TextEncode(Tail(s))
  ELSE Utf8OfCodePoint(s[1]) \o TextEncode(Tail(s))

CodeUnitsOf(cp) ==
  IF cp < 65536 THEN <<cp>>
  ELSE <<55296 + ((cp - 65536) \div 1024), 56320 + ((cp - 65536) % 1024)>>

IsCont(b) == b \in 128..191
\* The UTF-8 decoder proper: an ill-formed byte becomes U+FFFD.
RECURSIVE Utf8Decode(_)
Utf8Decode(b) ==
  IF b = <<>> THEN <<>>
  ELSE
    LET n == Len(b)
        rest(k) == Utf8Decode(SubSeq(b, k + 1, n))
        cp2 == (b[1] - 192) * 64 + (b[2] - 128)
        cp3 == (b[1] - 224) * 4096 + (b[2] - 128) * 64 + (b[3] - 128)
        cp4 == (b[1] - 240) * 262144 + (b[2] - 128) * 4096
                 + (b[3] - 128) * 64 + (b[4] - 128)
    IN  IF b[1] < 128 THEN <<b[1]>> \o rest(1)
        ELSE IF b[1] \in 194..223 /\ n >= 2 /\ IsCont(b[2])
             THEN <<cp2>> \o rest(2)
        ELSE IF b[1] \in 224..239 /\ n >= 3 /\ IsCont(b[2]) /\ IsCont(b[3])
                /\ cp3 >= 2048 /\ cp3 \notin 55296..57343
             THEN <<cp3>> \o rest(3)
        ELSE IF b[1] \in 240..244 /\ n >= 4 /\ IsCont(b[2]) /\ IsCont(b[3])
                /\ IsCont(b[4]) /\ cp4 \in 65536..1114111
             THEN CodeUnitsOf(cp4) \o rest(4)
        ELSE <<65533>> \o rest(1)

\* new TextDecoder().decode(bytes): ignoreBOM is false, so a leading
\* EF BB BF is consumed and does not appear in the result.
TextDecode(b) ==
  IF Len(b) >= 3 /\ SubSeq(b, 1, 3) = <<239, 187, 191>>
  THEN Utf8Decode(SubSeq(b, 4, Len(b)))
  ELSE Utf8Decode(b)

(***************************************************************************)
(* The emoji alphabet.  Two copies of the codec exist: "lib" is            *)
(* src/lib/emoji-encoder.ts, "page" is the normalising copy at the end of  *)
(* src/app/page.tsx.  Each symbol is the sequence of its code points.      *)
(***************************************************************************)
Variants == {"lib", "page"}

EMOJI_ALPHABET_lib ==
  <<
   <<128512>>, <<128515>>, <<128516>>, <<128513>>, <<128518>>, <<128517>>, <<129315>>, <<128514>>, <<128578>>, <<128579>>, <<128521>>, <<128522>>, <<128519>>, <<129392>>, <<128525>>, <<129321>>,
   <<128536>>, <<128535>>, <<9786, 65039>>, <<128538>>, <<128537>>, <<129394>>, <<128523>>, <<128539>>, <<128540>>, <<129322>>, <<128541>>, <<129297>>, <<129303>>, <<129325>>, <<129323>>, <<129300>>,
   <<129296>>, <<129320>>, <<128528>>, <<128529>>, <<128566>>, <<128527>>, <<128530>>, <<128580>>, <<128556>>, <<129317>>, <<128524>>, <<128532>>, <<128554>>, <<129316>>, <<128564>>, <<128567>>,
   <<129298>>, <<129301>>, <<129314>>, <<129326>>, <<129319>>, <<129397>>, <<129398>>, <<129396>>, <<128565>>, <<129327>>, <<129312>>, <<129395>>, <<129400>>, <<128526>>, <<129299>>, <<129488>>,
   <<128054>>, <<128049>>, <<128045>>, <<128057>>, <<128048>>, <<129418>>, <<128059>>, <<128060>>, <<128040>>, <<128047>>, <<129409>>, <<128046>>, <<128055>>, <<128061>>, <<128056>>, <<128053>>,
   <<128018>>, <<129421>>, <<129447>>, <<128020>>, <<128039>>, <<128038>>, <<128036>>, <<128035>>, <<128037>>, <<129414>>, <<129413>>, <<129417>>, <<129415>>, <<128058>>, <<128023>>, <<128052>>,
   <<129412>>, <<128029>>, <<128027>>, <<129419>>, <<128012>>, <<128030>>, <<128028>>, <<129439>>, <<129431>>, <<128375, 65039>>, <<129410>>, <<128034>>, <<128013>>, <<129422>>, <<129430>>, <<129429>>,
   <<128025>>, <<129425>>, <<129424>>, <<129438>>, <<129408>>, <<128033>>, <<128032>>, <<128031>>, <<128044>>, <<128051>>, <<128011>>, <<129416>>, <<128010>>, <<128005>>, <<128006>>, <<129427>>,
   <<127793>>, <<127807>>, <<127808>>, <<127806>>, <<127797>>, <<127794>>, <<127795>>, <<127796>>, <<127800>>, <<127802>>, <<127803>>, <<127799>>, <<127801>>, <<129344>>, <<127804>>, <<127790>>,
   <<127815>>, <<127816>>, <<127817>>, <<127818>>, <<127819>>, <<127820>>, <<127821>>, <<129389>>, <<127822>>, <<127823>>, <<127824>>, <<127825>>, <<127826>>, <<127827>>, <<129744>>, <<129373>>,
   <<127813>>, <<129746>>, <<129381>>, <<129361>>, <<127814>>, <<129364>>, <<129365>>, <<127805>>, <<127798, 65039>>, <<129745>>, <<129362>>, <<129388>>, <<129382>>, <<127812>>, <<129372>>, <<127792>>,
   <<127838>>, <<129360>>, <<129366>>, <<129747>>, <<129384>>, <<129391>>, <<129374>>, <<129479>>, <<129472>>, <<127830>>, <<127831>>, <<129385>>, <<129363>>, <<127828>>, <<127839>>, <<127829>>,
   <<9917>>, <<127936>>, <<127944>>, <<9918>>, <<129358>>, <<127952>>, <<127945>>, <<127934>>, <<129359>>, <<127923>>, <<127951>>, <<127953>>, <<129357>>, <<127955>>, <<127992>>, <<129354>>,
   <<129355>>, <<129349>>, <<9971>>, <<129665>>, <<127993>>, <<127907>>, <<129343>>, <<129405>>, <<127935>>, <<128759>>, <<129356>>, <<127919>>, <<127921>>, <<127918>>, <<127920>>, <<127922>>,
   <<128302>>, <<128142>>, <<9889>>, <<128293>>, <<128171>>, <<11088>>, <<127775>>, <<10024>>, <<128165>>, <<128168>>, <<128166>>, <<128167>>, <<127754>>, <<127914>>, <<127912>>, <<127917>>,
   <<127914>>, <<127915>>, <<127903, 65039>>, <<127904>>, <<127905>>, <<127906>>, <<128642>>, <<128643>>, <<128644>>, <<128645>>, <<128646>>, <<128647>>, <<128648>>, <<128649>>, <<128650>>, <<128669>>
  >>

EMOJI_ALPHABET_page ==
  <<
   <<128512>>, <<128515>>, <<128516>>, <<128513>>, <<128518>>, <<128517>>, <<129315>>, <<128514>>, <<128578>>, <<128579>>, <<128521>>, <<128522>>, <<128519>>, <<129392>>, <<128525>>, <<129321>>,
   <<128536>>, <<128535>>, <<9786>>, <<128538>>, <<128537>>, <<129394>>, <<128523>>, <<128539>>, <<128540>>, <<129322>>, <<128541>>, <<129297>>, <<129303>>, <<129325>>, <<129323>>, <<129300>>,
   <<129296>>, <<129320>>, <<128528>>, <<128529>>, <<128566>>, <<128527>>, <<128530>>, <<128580>>, <<128556>>, <<129317>>, <<128524>>, <<128532>>, <<128554>>, <<129316>>, <<128564>>, <<128567>>,
   <<129298>>, <<129301>>, <<129314>>, <<129326>>, <<129319>>, <<129397>>, <<129398>>, <<129396>>, <<128565>>, <<129327>>, <<129312>>, <<129395>>, <<129400>>, <<128526>>, <<129299>>, <<129488>>,
   <<128054>>, <<128049>>, <<128045>>, <<128057>>, <<128048>>, <<129418>>, <<128059>>, <<128060>>, <<128040>>, <<128047>>, <<129409>>, <<128046>>, <<128055>>, <<128061>>, <<128056>>, <<128053>>,
   <<128018>>, <<129421>>, <<129447>>, <<128020>>, <<128039>>, <<128038>>, <<128036>>, <<128035>>, <<128037>>, <<129414>>, <<129413>>, <<129417>>, <<129415>>, <<128058>>, <<128023>>, <<128052>>,
   <<129412>>, <<128029>>, <<128027>>, <<129419>>, <<128012>>, <<128030>>, <<128028>>, <<129439>>, <<129431>>, <<128375>>, <<129410>>, <<128034>>, <<128013>>, <<129422>>, <<129430>>, <<129429>>,
   <<128025>>, <<129425>>, <<129424>>, <<129438>>, <<129408>>, <<128033>>, <<128032>>, <<128031>>, <<128044>>, <<128051>>, <<128011>>, <<129416>>, <<128010>>, <<128005>>, <<128006>>, <<129427>>,
   <<127793>>, <<127807>>, <<127808>>, <<127806>>, <<127797>>, <<127794>>, <<127795>>, <<127796>>, <<127800>>, <<127802>>, <<127803>>, <<127799>>, <<127801>>, <<129344>>, <<127804>>, <<127790>>,
   <<127815>>, <<127816>>, <<127817>>, <<127818>>, <<127819>>, <<127820>>, <<127821>>, <<129389>>, <<127822>>, <<127823>>, <<127824>>, <<127825>>, <<127826>>, <<127827>>, <<129744>>, <<129373>>,
   <<127813>>, <<129746>>, <<129381>>, <<129361>>, <<127814>>, <<129364>>, <<129365>>, <<127805>>, <<127798>>, <<129745>>, <<129362>>, <<129388>>, <<129382>>, <<127812>>, <<129372>>, <<127792>>,
   <<127838>>, <<129360>>, <<129366>>, <<129747>>, <<129384>>, <<129391>>, <<129374>>, <<129479>>, <<129472>>, <<127830>>, <<127831>>, <<129385>>, <<129363>>, <<127828>>, <<127839>>, <<127829>>,
   <<9917>>, <<127936>>, <<127944>>, <<9918>>, <<129358>>, <<127952>>, <<127945>>, <<127934>>, <<129359>>, <<127923>>, <<127951>>, <<127953>>, <<129357>>, <<127955>>, <<127992>>, <<129354>>,
   <<129355>>, <<129349>>, <<9971>>, <<129665>>, <<127993>>, <<127907>>, <<129343>>, <<129405>>, <<127935>>, <<128759>>, <<129356>>, <<127919>>, <<127921>>, <<127918>>, <<127920>>, <<127922>>,
   <<128302>>, <<128142>>, <<9889>>, <<128293>>, <<128171>>, <<11088>>, <<127775>>, <<10024>>, <<128165>>, <<128168>>, <<128166>>, <<128167>>, <<127754>>, <<127914>>, <<127912>>, <<127917>>,
   <<127914>>, <<127915>>, <<127903>>, <<127904>>, <<127905>>, <<127906>>, <<128642>>, <<128643>>, <<128644>>, <<128645>>, <<128646>>, <<128647>>, <<128648>>, <<128649>>, <<128650>>, <<128669>>
  >>

EMOJI_ALPHABET(v) == IF v = "lib" THEN EMOJI_ALPHABET_lib ELSE EMOJI_ALPHABET_page

\* String.prototype.normalize('NFC') on the code points the model uses:
\* e + U+0301 composes to U+00E9, U+212B is replaced by U+00C5; emoji,
\* U+FE0F and whitespace are unchanged by NFC.
NFC(s) ==
  Flatten([i \in 1..Len(s) |->
             IF s[i] = 101 /\ i < Len(s) /\ s[i + 1] = 769 THEN <<233>>
             ELSE IF s[i] = 769 /\ i > 1 /\ s[i - 1] = 101 THEN <<>>
             ELSE IF s[i] = 8491 THEN <<197>>
             ELSE <<s[i]>>])

\* EMOJI_ALPHABET.forEach((emoji, index) => EMOJI_TO_BYTE.set(emoji, index)):
\* a key set more than once keeps the index of the last call.
LastIndexOf(alphabet, keyOf(_), k) ==
  CHOOSE i \in 0..255 :
    /\ keyOf(alphabet[i + 1]) = k
    /\ \A j \in (i + 1)..255 : keyOf(alphabet[j + 1]) # k

SameKey(emoji) == emoji

EMOJI_TO_BYTE_lib ==
  [k \in {EMOJI_ALPHABET_lib[i + 1] : i \in 0..255} |->
     LastIndexOf(EMOJI_ALPHABET_lib, SameKey, k)]

\* The page copy sets the NFC form of each emoji and, when it differs, the
\* original as well.
EMOJI_TO_BYTE_page ==
  LET normalizedKeys == {NFC(EMOJI_ALPHABET_page[i + 1]) : i \in 0..255}
      originalKeys == {EMOJI_ALPHABET_page[i + 1] : i \in 0..255}
  IN  [k \in normalizedKeys \cup originalKeys |->
         IF k \in normalizedKeys
         THEN LastIndexOf(EMOJI_ALPHABET_page, NFC, k)
         ELSE LastIndexOf(EMOJI_ALPHABET_page, SameKey, k)]

EMOJI_TO_BYTE(v) == IF v = "lib" THEN EMOJI_TO_BYTE_lib ELSE EMOJI_TO_BYTE_page

\* Array.from(string): the string's code points, one element each.
ArrayFrom(s) == [i \in 1..Len(s) |-> <<s[i]>>]

\* The body of base64ToEmojis(base64), reading the array `alphabet`.
base64ToEmojisOn(alphabet, v, base64) ==
  LET binary == atob(base64)
      emojis == Flatten([i \in 1..Len(binary.val) |->
                           alphabet[binary.val[i] + 1]])
  IN  IF ~binary.ok THEN Err("Failed to convert base64 to emojis")
      ELSE IF v = "page" THEN Ok(NFC(emojis)) ELSE Ok(emojis)

\* base64ToEmojis(base64)
base64ToEmojis(v, base64) == base64ToEmojisOn(EMOJI_ALPHABET(v), v, base64)

\* The body of emojisToBase64(emojis), reading the map `map`.
emojisToBase64On(map, v, emojis) ==
  LET normalizedEmojis == IF v = "page" THEN NFC(emojis) ELSE emojis
      emojiArray == ArrayFrom(normalizedEmojis)
      bytes == [i \in 1..Len(emojiArray) |-> map[emojiArray[i]]]
  IN  IF \E i \in 1..Len(emojiArray) : emojiArray[i] \notin DOMAIN map
      THEN Err("Failed to convert emojis to base64")
      ELSE btoa(bytes)

\* emojisToBase64(emojis)
emojisToBase64(v, emojis) == emojisToBase64On(EMOJI_TO_BYTE(v), v, emojis)

emojisToBase64Public(v, emojis) == emojisToBase64(v, emojis)

(***************************************************************************)
(* calculateChecksum.  A JavaScript number n is kept as <<hi, lo>> with    *)
(* n = hi * 65536 + lo and 0 <= lo < 65536, so that the sum                *)
(* ((hash << 5) - hash) + char, which leaves the 32-bit range, can be      *)
(* written down; a signed 32-bit integer has -32768 <= hi <= 32767.        *)
(***************************************************************************)
Halves(h) == <<(h \div 65536) % 65536, h % 65536>>
AsNumber(h) == <<h \div 65536, h % 65536>>
IsInt32(n) == n[1] \in -32768..32767 /\ n[2] \in 0..65535
FromInt32(n) == n[1] * 65536 + n[2]

\* ToInt32 of the specification of the language: modulo 2^32, signed
ToInt32(n) == <<((n[1] + 32768) % 65536) - 32768, n[2]>>

\* hash << 5
Shl5(n) ==
  LET lo5 == ToInt32(n)[2] * 32
  IN  ToInt32(<<ToInt32(n)[1] * 32 + (lo5 \div 65536), lo5 % 65536>>)

\* (shifted - hash) + char
MinusPlus(shifted, n, char) ==
  LET lo == shifted[2] - n[2] + char
  IN  <<shifted[1] - n[1] + (lo \div 65536), lo % 65536>>

\* A loop body without its second statement.
BitAndSelf_absent(n) == n

\* hash & hash
BitAndSelf(n) == ToInt32(n)

\* hash = ((hash << 5) - hash) + char;  hash = hash & hash
ChecksumStepNumber(n, char) == BitAndSelf(MinusPlus(Shl5(n), n, char))

ChecksumStep(hash, char) ==
  FromInt32(ChecksumStepNumber(AsNumber(hash), char))

\* for (let i = 0; i < data.length; i++) { ... }: the steps for the characters
\* from..to in order, starting from `hash`.  The range is halved so that the
\* evaluation depth stays logarithmic; the first half's result is needed
\* before the second half starts.
RECURSIVE ChecksumLoop(_, _, _, _)
ChecksumLoop(data, from, to, hash) ==
  IF from > to THEN hash
  ELSE IF from = to THEN ChecksumStep(hash, data[from])
  ELSE LET mid == (from + to) \div 2
           first == ChecksumLoop(data, from, mid, hash)
       IN  IF first \in Int THEN ChecksumLoop(data, mid + 1, to, first) ELSE 0

HexDigit(d) == IF d < 10 THEN 48 + d ELSE 97 + (d - 10)
RECURSIVE HexDigits(_, _)
\* the hex digits of x, at least `width` of them
HexDigits(x, width) ==
  IF x < 16 /\ width <= 1 THEN <<HexDigit(x)>>
  ELSE Append(HexDigits(x \div 16, width - 1), HexDigit(x % 16))

\* Number.prototype.toString(16) of a signed 32-bit integer
ToString16(hash) ==
  LET h == Halves(hash)
      neg == hash < 0
      mlo == IF neg THEN (65536 - h[2]) % 65536 ELSE h[2]
      mhi == IF neg THEN (65535 - h[1] + (IF h[2] = 0 THEN 1 ELSE 0)) % 65536
             ELSE h[1]
      digits == IF mhi = 0 THEN HexDigits(mlo, 1)
                ELSE HexDigits(mhi, 1) \o HexDigits(mlo, 4)
  IN  IF neg THEN <<45>> \o digits ELSE digits

calculateChecksum(data) == ToString16(ChecksumLoop(data, 1, Len(data), 0))

(***************************************************************************)
(* JSON.stringify / JSON.parse of the package object.  A missing property  *)
(* is Undefined.  The parser covers the texts the model produces: one      *)
(* object whose members are strings, without whitespace between tokens.    *)
(***************************************************************************)
Undefined == <<-1>>
Falsy(x) == x = Undefined \/ x = <<>>

JsonEscape(s) ==
  Flatten([i \in 1..Len(s) |->
             IF s[i] = 34 \/ s[i] = 92 THEN <<92, s[i]>> ELSE <<s[i]>>])
JsonQuote(s) == <<34>> \o JsonEscape(s) \o <<34>>

KeyEncrypted == <<101, 110, 99, 114, 121, 112, 116, 101, 100>>
KeySalt == <<115, 97, 108, 116>>
KeyIv == <<105, 118>>
KeyTag == <<116, 97, 103>>

\* JSON.stringify(encryptionResult): the properties in creation order
JSONstringify(r) ==
  LET member(key, value) == JsonQuote(key) \o <<58>> \o JsonQuote(value)
  IN  <<123>> \o member(KeyEncrypted, r.encrypted) \o <<44>>
        \o member(KeySalt, r.salt) \o <<44>>
        \o member(KeyIv, r.iv) \o <<44>>
        \o member(KeyTag, r.tag) \o <<125>>

\* The number of backslashes that immediately precede s[j], counted back
\* to s[i] at most.
BackslashRun(s, i, j) ==
  CHOOSE r \in 0..(j - i) :
    /\ \A t \in 1..r : s[j - t] = 92
    /\ (r = j - i \/ s[j - r - 1] # 92)

IsHex(c) == c \in (48..57) \cup (65..70) \cup (97..102)
HexVal(c) == IF c <= 57 THEN c - 48 ELSE IF c <= 70 THEN c - 55 ELSE c - 87

\* The character a one-letter escape stands for: \" \\ \/ \b \f \n \r \t
Unescape(c) ==
  CASE c = 98 -> 8 [] c = 102 -> 12 [] c = 110 -> 10 [] c = 114 -> 13
    [] c = 116 -> 9 [] OTHER -> c

\* A JSON string whose opening quote is s[i]: [ok, val, next], next being the
\* index after the closing quote.  Control characters and unknown escapes
\* are rejected; \uXXXX stands for the code unit XXXX.
JsonString(s, i) ==
  LET bad == [ok |-> FALSE, val |-> <<>>, next |-> i]
      first == i + 1
      closing == {j \in first..Len(s) :
                    s[j] = 34 /\ BackslashRun(s, first, j) % 2 = 0}
      close == CHOOSE j \in closing : \A k \in closing : j <= k
      escaped(k) == BackslashRun(s, first, k) % 2 = 1
      isU(k) == s[k] = 117 /\ escaped(k)
      inU(k) == \E d \in 1..4 : k - d >= first /\ isU(k - d)
      illegal(k) ==
        IF isU(k) THEN k + 4 >= close \/ \E d \in 1..4 : ~IsHex(s[k + d])
        ELSE IF escaped(k)
             THEN s[k] \notin {34, 92, 47, 98, 102, 110, 114, 116}
        ELSE s[k] < 32
      piece(k) ==
        IF s[k] = 92 /\ ~escaped(k) THEN <<>>
        ELSE IF isU(k)
             THEN <<HexVal(s[k + 1]) * 4096 + HexVal(s[k + 2]) * 256
                      + HexVal(s[k + 3]) * 16 + HexVal(s[k + 4])>>
        ELSE IF inU(k) THEN <<>>
        ELSE IF escaped(k) THEN <<Unescape(s[k])>>
        ELSE <<s[k]>>
  IN  IF i > Len(s) \/ s[i] # 34 \/ closing = {} THEN bad
      ELSE IF \E k \in first..(close - 1) : illegal(k) THEN bad
      ELSE [ok |-> TRUE,
            val |-> Flatten([n \in 1..(close - first) |-> piece(first + n - 1)]),
            next |-> close + 1]

\* members from s[i] on, up to the closing brace, which must end the text
RECURSIVE JsonMembers(_, _, _)
JsonMembers(s, i, obj) ==
  LET put(key, value) ==
        [k \in (DOMAIN obj) \cup {key.val} |->
           IF k = key.val THEN value.val ELSE obj[k]]
      after(key, value) ==
        LET j == value.next
        IN  IF ~value.ok \/ j > Len(s) THEN Err("SyntaxError")
            ELSE IF s[j] = 125
                 THEN (IF j = Len(s) THEN Ok(put(key, value))
                       ELSE Err("SyntaxError"))
            ELSE IF s[j] = 44 THEN JsonMembers(s, j + 1, put(key, value))
            ELSE Err("SyntaxError")
      member(key) ==
        IF ~key.ok \/ key.next > Len(s) THEN Err("SyntaxError")
        ELSE IF s[key.next] # 58 THEN Err("SyntaxError")
        ELSE after(key, JsonString(s, key.next + 1))
  IN  member(JsonString(s, i))

Prop(obj, key) == IF key \in DOMAIN obj THEN obj[key] ELSE Undefined
AsEncryptionResult(obj) ==
  [encrypted |-> Prop(obj, KeyEncrypted), salt |-> Prop(obj, KeySalt),
   iv |-> Prop(obj, KeyIv), tag |-> Prop(obj, KeyTag)]

JSONparse(s) ==
  LET object(members) ==
        IF members.ok THEN Ok(AsEncryptionResult(members.val)) ELSE members
  IN  IF Len(s) < 2 \/ s[1] # 123 THEN Err("SyntaxError")
      ELSE IF Len(s) = 2
           THEN (IF s[2] = 125 THEN Ok(AsEncryptionResult(<<>>))
                 ELSE Err("SyntaxError"))
      ELSE object(JsonMembers(s, 2, <<>>))

\* encodeToEmojis(encryptionResult)
encodeToEmojis(v, encryptionResult) ==
  LET fail(m) == Err("Failed to encode to emojis: " \o m)
      metadata(combinedData) ==
        [originalLength |-> Len(combinedData),
         encoding |-> "emoji-v1",
         checksum |-> calculateChecksum(combinedData)]
      converted(combinedData, emojis) ==
        IF ~emojis.ok THEN fail(emojis.err)
        ELSE Ok([emojis |-> emojis.val, metadata |-> metadata(combinedData)])
      encoded(combinedData, combinedBase64) ==
        IF ~combinedBase64.ok THEN fail(combinedBase64.err)
        ELSE converted(combinedData, base64ToEmojis(v, combinedBase64.val))
      combined(combinedData) == encoded(combinedData, btoa(combinedData))
  IN  combined(JSONstringify(encryptionResult))

\* decodeFromEmojis(emojiData)
decodeFromEmojis(v, emojiData) ==
  LET fail(m) == Err("Failed to decode from emojis: " \o m)
      parsed(encryptionResult) ==
        LET r == encryptionResult.val
        IN  IF ~encryptionResult.ok THEN fail(encryptionResult.err)
            ELSE IF Falsy(r.encrypted) \/ Falsy(r.salt) \/ Falsy(r.iv)
                    \/ Falsy(r.tag)
                 THEN fail("Invalid encryption result structure")
            ELSE Ok(r)
      verified(combinedData, calculatedChecksum) ==
        IF calculatedChecksum # emojiData.metadata.checksum
        THEN fail("Data integrity check failed")
        ELSE parsed(JSONparse(combinedData))
      decoded64(combinedData) ==
        IF ~combinedData.ok THEN fail(combinedData.err)
        ELSE verified(combinedData.val, calculateChecksum(combinedData.val))
      converted(combinedBase64) ==
        IF ~combinedBase64.ok THEN fail(combinedBase64.err)
        ELSE decoded64(atob(combinedBase64.val))
  IN  converted(emojisToBase64(v, emojiData.emojis))

\* Mutant: slice(i, i + groupSize - 1) loses the last symbol of every group.
formatEmojisForDisplay_shortSlice(emojis, groupSize) ==
  LET emojiArray == ArrayFrom(emojis)
      n == Len(emojiArray)
      count == (n + groupSize - 1) \div groupSize
      groups == [k \in 1..count |->
                   Flatten(SubSeq(emojiArray, (k - 1) * groupSize + 1,
                                  Min2(k * groupSize - 1, n)))]
  IN  Flatten([j \in 1..(2 * count - 1) |->
                 IF j % 2 = 1 THEN groups[(j + 1) \div 2] ELSE <<32>>])

\* formatEmojisForDisplay(emojis, groupSize), for groupSize >= 1: the loop
\* pushes the slices [i, i + groupSize) for i = 0, groupSize, ...
formatEmojisForDisplay(emojis, groupSize) ==
  LET emojiArray == ArrayFrom(emojis)
      n == Len(emojiArray)
      count == (n + groupSize - 1) \div groupSize
      groups == [k \in 1..count |->
                   Flatten(SubSeq(emojiArray, (k - 1) * groupSize + 1,
                                  Min2(k * groupSize, n)))]
  IN  Flatten([j \in 1..(2 * count - 1) |->
                 IF j % 2 = 1 THEN groups[(j + 1) \div 2] ELSE <<32>>])

\* The characters /\s/ matches.
IsWhiteSpace(c) ==
  c \in {9, 10, 11, 12, 13, 32, 160, 5760, 8232, 8233, 8239, 8287, 12288, 65279}
    \cup 8192..8202

\* unformatEmojis(formattedEmojis)
unformatEmojis(v, formattedEmojis) ==
  LET unformatted == SelectSeq(formattedEmojis, LAMBDA c : ~IsWhiteSpace(c))
  IN  IF v = "page" THEN NFC(unformatted) ELSE unformatted

(***************************************************************************)
(* lib/crypto.  The Web Crypto primitives are not part of the repository:  *)
(* PBKDF2 is modelled as a key that stands for the pair (password bytes,   *)
(* salt), AES-GCM as a keystream cipher with a tag that is a keyed digest  *)
(* of nonce and ciphertext.                                                *)
(***************************************************************************)
SALT_LENGTH == 32
IV_LENGTH == 12
TAG_LENGTH == 16

\* The platform: whether window.crypto.getRandomValues and
\* window.crypto.subtle exist.
Platforms == [getRandomValues : BOOLEAN, subtle : BOOLEAN]
FullPlatform == [getRandomValues |-> TRUE, subtle |-> TRUE]

RECURSIVE MixLoop(_, _, _, _, _)
MixLoop(m, from, to, acc, x) ==
  IF from > to THEN acc
  ELSE IF from = to THEN (acc * x + m[from]) % 256
  ELSE LET mid == (from + to) \div 2
           first == MixLoop(m, from, mid, acc, x)
       IN  IF first \in Int THEN MixLoop(m, mid + 1, to, first, x) ELSE 0
Mix(m, x) == MixLoop(m, 1, Len(m), 1, x)

KeyMaterial(key) == <<Len(key.pw)>> \o key.pw \o key.salt

\* The keystream block i of (key, iv).
AesGcmKeystream(key, iv, n) ==
  LET d == Mix(KeyMaterial(key) \o iv, 3)
  IN  [i \in 1..n |-> (d * (2 * i + 1) + i) % 256]

\* The tag: four digests of key, iv and ciphertext spread over 16 bytes.  One
\* changed bit changes every digest (the multipliers are odd).
AesGcmTag(key, iv, ct) ==
  LET m == KeyMaterial(key) \o iv \o <<Len(ct)>> \o ct
      digest == <<Mix(m, 3), Mix(m, 5), Mix(m, 7), Mix(m, 11)>>
  IN  [j \in 1..TAG_LENGTH |-> (digest[((j - 1) % 4) + 1] * (2 * j + 1)) % 256]

\* crypto.subtle.encrypt({name: 'AES-GCM', iv, tagLength: 128}, key, data):
\* ciphertext followed by the tag
AesGcmEncrypt(key, iv, data) ==
  LET ks == AesGcmKeystream(key, iv, Len(data))
      ct == [i \in 1..Len(data) |-> Xor8(data[i], ks[i])]
  IN  ct \o AesGcmTag(key, iv, ct)

\* Mutant: a cipher mode without authentication (the tag is not verified).
AesGcmDecrypt_unauthenticated(key, iv, data) ==
  LET n == Len(data) - TAG_LENGTH
      ct == SubSeq(data, 1, n)
      ks == AesGcmKeystream(key, iv, n)
  IN  IF n < 0 THEN Err("OperationError")
      ELSE Ok([i \in 1..n |-> Xor8(ct[i], ks[i])])

\* crypto.subtle.decrypt(...): throws unless the tag verifies
AesGcmDecrypt(key, iv, data) ==
  LET n == Len(data) - TAG_LENGTH
      ct == SubSeq(data, 1, n)
      tag == SubSeq(data, n + 1, Len(data))
      ks == AesGcmKeystream(key, iv, n)
  IN  IF n < 0 THEN Err("OperationError")
      ELSE IF AesGcmTag(key, iv, ct) # tag THEN Err("OperationError")
      ELSE Ok([i \in 1..n |-> Xor8(ct[i], ks[i])])

\* Mutant: without getRandomValues the bytes come from Math.random.
getSecureRandomBytes_mathRandom(platform, length, drawn) ==
  Ok(SubSeq(drawn, 1, length))

\* Mutant: new Uint8Array(length - 1).
getSecureRandomBytes_oneShort(platform, length, drawn) ==
  IF platform.getRandomValues THEN Ok(SubSeq(drawn, 1, length - 1))
  ELSE Err("Secure random number generation not available")

\* getSecureRandomBytes(length); `drawn` is what getRandomValues writes
getSecureRandomBytes(platform, length, drawn) ==
  IF platform.getRandomValues THEN Ok(SubSeq(drawn, 1, length))
  ELSE Err("Secure random number generation not available")

\* Mutant: a key derived from the salt alone.
deriveKey_saltOnly(platform, password, salt) ==
  IF ~platform.subtle THEN Err("Web Crypto API not available")
  ELSE Ok([pw |-> <<>>, salt |-> salt])

\* deriveKey(password, salt)
deriveKey(platform, password, salt) ==
  IF ~platform.subtle THEN Err("Web Crypto API not available")
  ELSE Ok([pw |-> TextEncode(password), salt |-> salt])

\* arrayBufferToBase64(buffer) / base64ToArrayBuffer(base64)
arrayBufferToBase64(bytes) == btoa(bytes).val
base64ToArrayBuffer(base64) == atob(base64)

\* encryptText(text, password); saltDrawn and ivDrawn are the random bytes
encryptText(platform, text, password, saltDrawn, ivDrawn) ==
  LET fail(m) == Err("Encryption failed: " \o m)
      result(salt, iv, ciphertext, tag) ==
        Ok([encrypted |-> arrayBufferToBase64(ciphertext),
            salt |-> arrayBufferToBase64(salt),
            iv |-> arrayBufferToBase64(iv),
            tag |-> arrayBufferToBase64(tag)])
      split(salt, iv, encryptedBytes, n) ==
        result(salt, iv, SubSeq(encryptedBytes, 1, n - TAG_LENGTH),
               SubSeq(encryptedBytes, n - TAG_LENGTH + 1, n))
      encrypt(salt, iv, key, plaintext) ==
        IF ~key.ok THEN fail(key.err)
        ELSE split(salt, iv, AesGcmEncrypt(key.val, iv, plaintext),
                   Len(plaintext) + TAG_LENGTH)
      drawn(plaintext, salt, iv) ==
        IF ~salt.ok THEN fail(salt.err)
        ELSE IF ~iv.ok THEN fail(iv.err)
        ELSE encrypt(salt.val, iv.val, deriveKey(platform, password, salt.val),
                     plaintext)
  IN  IF text = <<>> \/ password = <<>> THEN fail("Text and password are required")
      ELSE drawn(TextEncode(text),
                 getSecureRandomBytes(platform, SALT_LENGTH, saltDrawn),
                 getSecureRandomBytes(platform, IV_LENGTH, ivDrawn))

\* The error of the step of decryptText that throws first, "" when none does,
\* and the decrypted text.
decryptTextBody(platform, input) ==
  LET asText(plain) ==
        IF ~plain.ok THEN plain ELSE Ok(TextDecode(plain.val))
      derived(key, ciphertext, ivBytes, tagBytes) ==
        IF ~key.ok THEN key
        ELSE asText(AesGcmDecrypt(key.val, ivBytes, ciphertext \o tagBytes))
      converted(ciphertext, saltBytes, ivBytes, tagBytes) ==
        IF ~ciphertext.ok THEN ciphertext
        ELSE IF ~saltBytes.ok THEN saltBytes
        ELSE IF ~ivBytes.ok THEN ivBytes
        ELSE IF ~tagBytes.ok THEN tagBytes
        ELSE IF Len(saltBytes.val) # SALT_LENGTH THEN Err("Invalid salt length")
        ELSE IF Len(ivBytes.val) # IV_LENGTH THEN Err("Invalid IV length")
        ELSE IF Len(tagBytes.val) # TAG_LENGTH THEN Err("Invalid tag length")
        ELSE derived(deriveKey(platform, input.password, saltBytes.val),
                     ciphertext.val, ivBytes.val, tagBytes.val)
  IN  IF Falsy(input.encrypted) \/ Falsy(input.salt) \/ Falsy(input.iv)
         \/ Falsy(input.tag) \/ Falsy(input.password)
      THEN Err("All decryption parameters are required")
      ELSE converted(base64ToArrayBuffer(input.encrypted),
                     base64ToArrayBuffer(input.salt),
                     base64ToArrayBuffer(input.iv),
                     base64ToArrayBuffer(input.tag))

\* Mutant: the catch block passes the cause on in the message.
decryptTextCatch_leaky(thrown) == Err("Decryption failed: " \o thrown.err)

\* The catch block of decryptText: one message for every cause.
decryptTextCatch(thrown) ==
  Err("Decryption failed: Invalid password or corrupted data")

\* decryptText(input)
decryptText(platform, input) ==
  LET outcome(body) == IF body.ok THEN body ELSE decryptTextCatch(body)
  IN  outcome(decryptTextBody(platform, input))

(***************************************************************************)
(* Bounds and input sets.                                                  *)
(***************************************************************************)
MaxBytes == 2
MaxGroupSize == 3
MaxTextChars == 2

\* A result slot no call has filled yet.
NotCalled == [ok |-> FALSE, val |-> <<>>, err |-> "(not called)"]
Called(r) == r # NotCalled

\* Byte sequences given to the codec: every single byte, short sequences over
\* a sample, and the 256 bytes 0..255 in order.
SampleBytes == {0, 65, 105, 240, 255}
AllBytes == [i \in 1..256 |-> i - 1]
CodecInputs ==
  {<<b>> : b \in 0..255} \cup SeqsUpTo(SampleBytes, MaxBytes) \cup {AllBytes}

\* Packages given to the framing: fields from the test data of
\* public/debug-console.js ("dGVzdA==", "aXY=", "dGFn") and "+/8=".
FieldStrings ==
  {<<100, 71, 86, 122, 100, 65, 61, 61>>, <<97, 88, 89, 61>>,
   <<100, 71, 70, 110>>, <<43, 47, 56, 61>>}
Packages ==
  [encrypted : FieldStrings, salt : FieldStrings, iv : FieldStrings,
   tag : FieldStrings]

\* Texts and passwords are well-formed UTF-16 strings: a, e-acute, U+FEFF
\* and U+1F600 (a surrogate pair) cover UTF-8 sequences of 1 to 4 bytes.
TextChars == {<<97>>, <<65279>>, <<55357, 56832>>}
Texts == {Flatten(cs) : cs \in SeqsUpTo(TextChars, MaxTextChars)} \cup {<<233>>}
Passwords == {<<>>, <<112>>, <<112, 233>>}

\* What getRandomValues may write: two different fillings.
Draw(seed, length) == [i \in 1..length |-> (seed * 89 + i * 7) % 256]
Seeds == {1, 2}

VARIABLES
  variant,      \* which copy of the codec is in use
  platform,     \* what window.crypto offers
  bytes,        \* codec: the bytes to encode
  groupSize,    \* codec: the group size for display
  emojis,       \* codec: result of base64ToEmojis
  display,      \* codec: result of formatEmojisForDisplay
  unformatted,  \* codec: result of unformatEmojis
  base64Out,    \* codec: result of emojisToBase64Public
  pkg,          \* framing: the package to encode
  emojiData,    \* framing: the EmojiEncodedData (result of encodeToEmojis)
  decoded,      \* framing: result of decodeFromEmojis
  text,         \* crypto: the text given to encryptText
  password,     \* crypto: the password given to encryptText
  encrypted,    \* crypto: result of encryptText
  input,        \* crypto: the DecryptionInput given to decryptText
  decrypted,    \* crypto: result of decryptText
  mode,         \* app: 'encrypt' or 'decrypt'
  inputText,    \* app: the text to encrypt, or the decrypted text
  result,       \* app: the emoji text produced, or the emoji text to decrypt
  isProcessing, \* app: an operation is in flight
  error,        \* app: the error message shown
  success,      \* app: the success message shown
  emojiStats,   \* app: {} for null, or {the statistics of the last result}
  pending,      \* app: the awaited call of the handler in flight
  calls,        \* app: the library functions the last handler has called
  clipboard,    \* the user's clipboard
  invocation,   \* calls: per call of encryptText / decryptText, its arguments,
                \*        where it stands, what it has done and its outcome
  locals,       \* calls: per activation, the local buffers of the call
  drawCount,    \* calls: how often getRandomValues has been called
  alphabetTable, \* tables: the array EMOJI_ALPHABET of the module
  toByteTable,  \* tables: the map EMOJI_TO_BYTE of the module
  lastCall,     \* tables: the latest codec call, its input and its result
  checksumRun,  \* checksum: the loop of one calculateChecksum call
  formatRun     \* format: the loop of one formatEmojisForDisplay call

codecVars == <<bytes, groupSize, emojis, display, unformatted, base64Out>>
frameVars == <<pkg, emojiData, decoded>>
cryptoVars == <<text, password, encrypted, input, decrypted>>
appVars == <<mode, inputText, result, isProcessing, error, success, emojiStats,
             pending, calls, clipboard>>
callVars == <<invocation, locals, drawCount>>
tableVars == <<alphabetTable, toByteTable, lastCall>>
vars == <<variant, platform, codecVars, frameVars, cryptoVars, appVars, callVars, tableVars, checksumRun, formatRun>>

NoPackage == [encrypted |-> <<>>, salt |-> <<>>, iv |-> <<>>, tag |-> <<>>]
CodecIdle ==
  /\ bytes = <<>> /\ groupSize = 1
  /\ emojis = NotCalled /\ display = NotCalled
  /\ unformatted = NotCalled /\ base64Out = NotCalled
FrameIdle == pkg = NoPackage /\ emojiData = NotCalled /\ decoded = NotCalled
CryptoIdle ==
  /\ text = <<>> /\ password = <<>>
  /\ encrypted = NotCalled /\ input = NotCalled /\ decrypted = NotCalled
NoOp == [op |-> "none", outcome |-> NotCalled]
AppIdle ==
  /\ mode = "encrypt" /\ inputText = <<>> /\ result = <<>>
  /\ isProcessing = FALSE /\ error = "" /\ success = ""
  /\ emojiStats = {} /\ pending = NoOp /\ calls = <<>> /\ clipboard = <<>>

\* The locals of an activation before the call has created any of them.
NoLocals ==
  [plaintext |-> Undefined, passwordBytes |-> Undefined, salt |-> <<>>,
   iv |-> <<>>, encryptedData |-> <<>>, keyMaterial |-> <<>>,
   key |-> [pw |-> <<>>, salt |-> <<>>],
   encrypted |-> <<>>, decrypted |-> NotCalled]
CallIds == {1, 2}
CallsIdle ==
  /\ invocation = [c \in CallIds |-> [kind |-> "none"]]
  /\ locals = [c \in CallIds |-> NoLocals]
  /\ drawCount = 0
NoCall == [op |-> "none", input |-> <<>>, arg |-> 0, output |-> NotCalled,
           failedBefore |-> FALSE]
NoRun == [data |-> <<>>, i |-> 0, before |-> <<0, 0>>, hash |-> <<0, 0>>,
          returned |-> NotCalled]
ChecksumIdle == checksumRun = NoRun
NoFormat == [emojiArray |-> <<>>, groupSize |-> 1, i |-> 0, groups |-> <<>>,
             beyond |-> 0, returned |-> NotCalled]
FormatIdle == formatRun = NoFormat
TablesIdle == alphabetTable = <<>> /\ toByteTable = <<>> /\ lastCall = NoCall

(***************************************************************************)
(* SpecCodec: the byte <-> emoji conversion and the display format.        *)
(***************************************************************************)
InitCodec ==
  /\ variant \in Variants
  /\ platform = FullPlatform
  /\ bytes \in CodecInputs
  /\ groupSize \in 1..MaxGroupSize
  /\ emojis = NotCalled /\ display = NotCalled
  /\ unformatted = NotCalled /\ base64Out = NotCalled
  /\ FrameIdle
  /\ CryptoIdle
  /\ AppIdle
  /\ CallsIdle
  /\ TablesIdle
  /\ ChecksumIdle
  /\ FormatIdle

Base64ToEmojis ==
  /\ ~Called(emojis)
  /\ emojis' = base64ToEmojis(variant, btoa(bytes).val)
  /\ UNCHANGED <<variant, platform, bytes, groupSize, display, unformatted,
                 base64Out, frameVars, cryptoVars, appVars, callVars, tableVars, checksumRun, formatRun>>

EmojisToBase64 ==
  /\ emojis.ok /\ ~Called(base64Out)
  /\ base64Out' = emojisToBase64Public(variant, emojis.val)
  /\ UNCHANGED <<variant, platform, bytes, groupSize, emojis, display,
                 unformatted, frameVars, cryptoVars, appVars, callVars, tableVars, checksumRun, formatRun>>

FormatEmojisForDisplay ==
  /\ emojis.ok /\ ~Called(display)
  /\ display' = Ok(formatEmojisForDisplay(emojis.val, groupSize))
  /\ UNCHANGED <<variant, platform, bytes, groupSize, emojis, unformatted,
                 base64Out, frameVars, cryptoVars, appVars, callVars, tableVars, checksumRun, formatRun>>

UnformatEmojis ==
  /\ display.ok /\ ~Called(unformatted)
  /\ unformatted' = Ok(unformatEmojis(variant, display.val))
  /\ UNCHANGED <<variant, platform, bytes, groupSize, emojis, display,
                 base64Out, frameVars, cryptoVars, appVars, callVars, tableVars, checksumRun, formatRun>>

NextCodec ==
  \/ Base64ToEmojis
  \/ EmojisToBase64
  \/ FormatEmojisForDisplay
  \/ UnformatEmojis

SpecCodec == InitCodec /\ [][NextCodec]_vars

\* C2: for every byte sequence b, converting b to emojis and the emoji string
\* back yields exactly b.
C2_CodecRoundTrip ==
  Called(base64Out) =>
    /\ base64Out.ok
    /\ atob(base64Out.val).ok
    /\ atob(base64Out.val).val = bytes

\* C3: the alphabet has 256 pairwise distinct symbols and the reverse map
\* sends every symbol back to its index.
C3_AlphabetBijective ==
  /\ Len(EMOJI_ALPHABET(variant)) = 256
  /\ \A i, j \in 0..255 :
       i # j => EMOJI_ALPHABET(variant)[i + 1] # EMOJI_ALPHABET(variant)[j + 1]
  /\ \A i \in 0..255 :
       /\ EMOJI_ALPHABET(variant)[i + 1] \in DOMAIN EMOJI_TO_BYTE(variant)
       /\ EMOJI_TO_BYTE(variant)[EMOJI_ALPHABET(variant)[i + 1]] = i
  /\ Cardinality(DOMAIN EMOJI_TO_BYTE(variant)) = 256

\* C9: for every emoji string s over the alphabet and every group size
\* g >= 1, unformatEmojis(formatEmojisForDisplay(s, g)) is normalize(s).
C9_FormatUnformat ==
  Called(unformatted) => unformatted.val = NFC(emojis.val)

\* A string longer than one group has been formatted and unformatted.
C9_Witness ==
  /\ Called(unformatted)
  /\ Len(emojis.val) > groupSize
  /\ \E i \in 1..Len(display.val) : display.val[i] = 32

(***************************************************************************)
(* SpecDecoder: the decoder and unformatEmojis on emoji text that comes    *)
(* from outside: typed, pasted or read from a file.                        *)
(***************************************************************************)
MaxSymbols == 3

\* The indices whose symbol has a form with and a form without U+FE0F.
VSIndices == {18, 105, 168, 242}
WithoutVariationSelector(i) == <<EMOJI_ALPHABET_page[i + 1][1]>>
WithVariationSelector(i) == WithoutVariationSelector(i) \o <<65039>>

\* Strings of the symbols of the bytes 0 and 65, and the same with the
\* letter x in place of one symbol.
SymbolStrings ==
  {Flatten([k \in 1..Len(b) |-> EMOJI_ALPHABET_page[b[k] + 1]]) :
     b \in SeqsUpTo({0, 65}, MaxSymbols) \ {<<>>}}
DecoderInputs ==
  SymbolStrings
    \cup {[j \in 1..Len(s) |-> IF j = k THEN 120 ELSE s[j]] :
            s \in SymbolStrings, k \in 1..MaxSymbols}
    \cup {WithVariationSelector(i) : i \in VSIndices}
    \cup {WithoutVariationSelector(i) : i \in VSIndices}

InitDecoder ==
  /\ variant \in Variants
  /\ platform = FullPlatform
  /\ bytes = <<>> /\ groupSize = 1
  /\ \E s \in DecoderInputs : emojis = Ok(s) /\ display = Ok(s)
  /\ unformatted = NotCalled /\ base64Out = NotCalled
  /\ FrameIdle
  /\ CryptoIdle
  /\ AppIdle
  /\ CallsIdle
  /\ TablesIdle
  /\ ChecksumIdle
  /\ FormatIdle

NextDecoder ==
  \/ EmojisToBase64
  \/ UnformatEmojis

SpecDecoder == InitDecoder /\ [][NextDecoder]_vars

\* The index, in the array the decoder splits s into, of the first element
\* that is not a key of EMOJI_TO_BYTE; -1 when there is none.
FirstInvalid(v, s) ==
  LET first(emojiArray, map) ==
        IF \A i \in 1..Len(emojiArray) : emojiArray[i] \in DOMAIN map THEN -1
        ELSE (CHOOSE i \in 1..Len(emojiArray) :
                /\ emojiArray[i] \notin DOMAIN map
                /\ \A j \in 1..(i - 1) : emojiArray[j] \in DOMAIN map) - 1
  IN  first(ArrayFrom(IF v = "page" THEN NFC(s) ELSE s), EMOJI_TO_BYTE(v))

\* C15: when the emoji text holds a character that is not in the alphabet,
\* decoding fails with an error that names the position of that character:
\* the error that reaches the caller of emojisToBase64Public differs from
\* the error for a text whose offending character is at another position.
C15_InvalidSymbolPosition ==
  (Called(base64Out) /\ FirstInvalid(variant, emojis.val) >= 0) =>
    /\ ~base64Out.ok
    /\ \A s \in DecoderInputs :
         (/\ FirstInvalid(variant, s) >= 0
          /\ FirstInvalid(variant, s) # FirstInvalid(variant, emojis.val))
           => emojisToBase64Public(variant, s).err # base64Out.err

\* C16: for each alphabet symbol that has a form with and a form without a
\* variation selector, decoding either form yields the single byte that is
\* the symbol's index, and unformatEmojis maps both forms to the same text.
C16_VariationSelectorForms ==
  \A i \in VSIndices :
    /\ (/\ Called(base64Out)
        /\ emojis.val \in {WithVariationSelector(i), WithoutVariationSelector(i)})
         => /\ base64Out.ok
            /\ atob(base64Out.val).ok
            /\ atob(base64Out.val).val = <<i>>
    /\ (/\ Called(unformatted)
        /\ display.val \in {WithVariationSelector(i), WithoutVariationSelector(i)})
         => /\ unformatted.val = unformatEmojis(variant, WithVariationSelector(i))
            /\ unformatted.val = unformatEmojis(variant, WithoutVariationSelector(i))

(***************************************************************************)
(* SpecFrame: encodeToEmojis / decodeFromEmojis with their metadata.       *)
(***************************************************************************)
InitFrame ==
  /\ variant \in Variants
  /\ platform = FullPlatform
  /\ pkg \in Packages
  /\ emojiData = NotCalled /\ decoded = NotCalled
  /\ CodecIdle
  /\ CryptoIdle
  /\ AppIdle
  /\ CallsIdle
  /\ TablesIdle
  /\ ChecksumIdle
  /\ FormatIdle

EncodeToEmojis ==
  /\ ~Called(emojiData)
  /\ emojiData' = encodeToEmojis(variant, pkg)
  /\ UNCHANGED <<variant, platform, pkg, decoded, codecVars, cryptoVars, appVars, callVars, tableVars, checksumRun, formatRun>>

\* Other values for metadata.checksum: "0", one digit more, one digit less.
ChecksumAlterations(c) ==
  {<<48>>, Append(c, 48), SubSeq(c, 1, Len(c) - 1)} \ {c}

\* The stored checksum is altered, once, before decoding.
AlterChecksum ==
  /\ emojiData.ok /\ ~Called(decoded)
  /\ emojiData = encodeToEmojis(variant, pkg)
  /\ \E c \in ChecksumAlterations(emojiData.val.metadata.checksum) :
       emojiData' = [emojiData EXCEPT !.val.metadata.checksum = c]
  /\ UNCHANGED <<variant, platform, pkg, decoded, codecVars, cryptoVars, appVars, callVars, tableVars, checksumRun, formatRun>>

DecodeFromEmojis ==
  /\ emojiData.ok /\ ~Called(decoded)
  /\ decoded' = decodeFromEmojis(variant, emojiData.val)
  /\ UNCHANGED <<variant, platform, pkg, emojiData, codecVars, cryptoVars, appVars, callVars, tableVars, checksumRun, formatRun>>

NextFrame ==
  \/ EncodeToEmojis
  \/ AlterChecksum
  \/ DecodeFromEmojis

SpecFrame == InitFrame /\ [][NextFrame]_vars

IntegrityMismatch == "Failed to decode from emojis: Data integrity check failed"

\* C7: decoding an EmojiEncodedData whose emojis are all alphabet symbols but
\* whose metadata.checksum differs from the checksum of the data fails with
\* the integrity error and returns no package.
C7_ChecksumMismatchRejected ==
  (/\ Called(decoded)
   /\ emojiData.val.metadata.checksum # calculateChecksum(JSONstringify(pkg)))
    => (~decoded.ok /\ decoded.err = IntegrityMismatch)

\* C10: decodeFromEmojis(encodeToEmojis(pkg)) returns pkg and raises no error.
C10_FrameRoundTrip ==
  (Called(decoded) /\ emojiData = encodeToEmojis(variant, pkg))
    => (decoded.ok /\ decoded.val = pkg)

\* C14: for every result of encodeToEmojis, the number of symbols of emojis,
\* as the decoder splits them, equals the number of encoded bytes and
\* metadata.originalLength.
C14_OneSymbolPerByte ==
  emojiData.ok =>
    \A split \in {ArrayFrom(IF variant = "page" THEN NFC(emojiData.val.emojis)
                             ELSE emojiData.val.emojis)} :
      /\ Len(split) = Len(atob(btoa(JSONstringify(pkg)).val).val)
      /\ Len(split) = emojiData.val.metadata.originalLength

(***************************************************************************)
(* SpecCrypto: encryptText, then decryptText on the package as returned,   *)
(* with another password, with one bit flipped, or malformed.              *)
(***************************************************************************)
InitCrypto ==
  /\ variant = "page"
  /\ platform \in Platforms
  /\ text \in Texts
  /\ password \in Passwords
  /\ encrypted = NotCalled /\ input = NotCalled /\ decrypted = NotCalled
  /\ CodecIdle
  /\ FrameIdle
  /\ AppIdle
  /\ CallsIdle
  /\ TablesIdle
  /\ ChecksumIdle
  /\ FormatIdle

EncryptText ==
  /\ ~Called(encrypted)
  /\ \E s \in Seeds :
       encrypted' = encryptText(platform, text, password,
                                Draw(s, SALT_LENGTH), Draw(s + 2, IV_LENGTH))
  /\ UNCHANGED <<variant, platform, text, password, input, decrypted,
                 codecVars, frameVars, appVars, callVars, tableVars, checksumRun, formatRun>>

WithPassword(package, p) ==
  [encrypted |-> package.encrypted, salt |-> package.salt, iv |-> package.iv,
   tag |-> package.tag, password |-> p]

\* The caller passes the package on with some password.
PresentPackage ==
  /\ encrypted.ok /\ ~Called(input)
  /\ \E p \in Passwords : input' = Ok(WithPassword(encrypted.val, p))
  /\ UNCHANGED <<variant, platform, text, password, encrypted, decrypted,
                 codecVars, frameVars, appVars, callVars, tableVars, checksumRun, formatRun>>

\* One bit of the ciphertext or of the tag is changed in transit.
FlipBitInTransit ==
  /\ encrypted.ok /\ ~Called(input)
  /\ \E f \in {"encrypted", "tag"} :
       LET b == atob(encrypted.val[f]).val
       IN  \E i \in 1..Len(b), k \in 0..7 :
             input' = Ok([WithPassword(encrypted.val, password)
                            EXCEPT ![f] = arrayBufferToBase64(FlipBitAt(b, i, k))])
  /\ UNCHANGED <<variant, platform, text, password, encrypted, decrypted,
                 codecVars, frameVars, appVars, callVars, tableVars, checksumRun, formatRun>>

\* A field that is missing, empty, not base64, or a byte short or long.
Malformed(field, how) ==
  LET b == atob(field).val
  IN  CASE how = "missing" -> Undefined
        [] how = "empty" -> <<>>
        [] how = "notBase64" -> Append(field, 33)
        [] how = "shorter" -> arrayBufferToBase64(SubSeq(b, 1, Len(b) - 1))
        [] how = "longer" -> arrayBufferToBase64(Append(b, 0))
Malformations == {"missing", "empty", "notBase64", "shorter", "longer"}

MalformField ==
  /\ encrypted.ok /\ ~Called(input)
  /\ \E f \in {"encrypted", "salt", "iv", "tag"}, how \in Malformations :
       input' = Ok([WithPassword(encrypted.val, password)
                      EXCEPT ![f] = Malformed(encrypted.val[f], how)])
  /\ UNCHANGED <<variant, platform, text, password, encrypted, decrypted,
                 codecVars, frameVars, appVars, callVars, tableVars, checksumRun, formatRun>>

DecryptText ==
  /\ input.ok /\ ~Called(decrypted)
  /\ decrypted' = decryptText(platform, input.val)
  /\ UNCHANGED <<variant, platform, text, password, encrypted, input,
                 codecVars, frameVars, appVars, callVars, tableVars, checksumRun, formatRun>>

NextCrypto ==
  \/ EncryptText
  \/ PresentPackage
  \/ FlipBitInTransit
  \/ MalformField
  \/ DecryptText

SpecCrypto == InitCrypto /\ [][NextCrypto]_vars

DecryptionFailed == "Decryption failed: Invalid password or corrupted data"
SamePackage(a, b) ==
  /\ a.encrypted = b.encrypted /\ a.salt = b.salt
  /\ a.iv = b.iv /\ a.tag = b.tag

\* C1: decryptText on the package of encryptText(t, p) with the same password
\* p returns exactly t.
C1_RoundTrip ==
  (/\ Called(decrypted)
   /\ SamePackage(input.val, encrypted.val)
   /\ input.val.password = password)
    => (decrypted.ok /\ decrypted.val = text)

OneBitApart(a, b) ==
  LET x == atob(a).val
      y == atob(b)
  IN  /\ y.ok
      /\ Len(y.val) = Len(x)
      /\ \E i \in 1..Len(x), k \in 0..7 : y.val = FlipBitAt(x, i, k)
BitFlipped(in, package) ==
  \/ /\ OneBitApart(package.encrypted, in.encrypted)
     /\ in.tag = package.tag
  \/ /\ OneBitApart(package.tag, in.tag)
     /\ in.encrypted = package.encrypted

\* C5: with one bit of the ciphertext or of the tag changed, decryptText with
\* the correct password fails with DecryptionFailed and returns no plaintext.
C5_TamperDetected ==
  (/\ Called(decrypted)
   /\ input.val.password = password
   /\ input.val.salt = encrypted.val.salt /\ input.val.iv = encrypted.val.iv
   /\ BitFlipped(input.val, encrypted.val))
    => (~decrypted.ok /\ decrypted.err = DecryptionFailed)

\* decryptText ran on a package with a flipped ciphertext bit.
C5_Witness ==
  /\ Called(decrypted)
  /\ input.val.password = password
  /\ input.val.tag = encrypted.val.tag
  /\ OneBitApart(encrypted.val.encrypted, input.val.encrypted)
  /\ ~decrypted.ok

\* C6: every failure of decryptText raises the same error with the same
\* message, whatever the cause.
C6_OneErrorForAllCauses ==
  (Called(decrypted) /\ ~decrypted.ok) => decrypted = Err(DecryptionFailed)

\* decryptText failed on a salt of the wrong length.
C6_Witness ==
  /\ Called(decrypted)
  /\ ~decrypted.ok
  /\ decryptTextBody(platform, input.val).err = "Invalid salt length"

\* C13: every package returned by encryptText has a salt of exactly 32 bytes,
\* an iv of exactly 12 bytes, a tag of exactly 16 bytes, and a ciphertext
\* field without the tag: as many bytes as the UTF-8 form of the plaintext.
C13_PackageFieldLengths ==
  encrypted.ok =>
    /\ atob(encrypted.val.salt).ok /\ Len(atob(encrypted.val.salt).val) = 32
    /\ atob(encrypted.val.iv).ok /\ Len(atob(encrypted.val.iv).val) = 12
    /\ atob(encrypted.val.tag).ok /\ Len(atob(encrypted.val.tag).val) = 16
    /\ atob(encrypted.val.encrypted).ok
    /\ Len(atob(encrypted.val.encrypted).val) = Len(TextEncode(text))

\* encryptText has returned a package for a text whose UTF-8 form is longer
\* than the text.
C13_Witness ==
  /\ encrypted.ok
  /\ Len(TextEncode(text)) > Len(text)
  /\ Len(atob(encrypted.val.encrypted).val) = Len(TextEncode(text))

(***************************************************************************)
(* SpecApp: the Home component of app/page.tsx.  A handler runs up to its  *)
(* await in one step; the awaited call resolves in a later step, and the   *)
(* user may type, paste, copy or switch mode in between.                   *)
(***************************************************************************)
\* getEmojiStats(emojis); the ratio is kept as <<numerator, denominator>>
getEmojiStats(emojiString) ==
  LET emojiArray == ArrayFrom(emojiString)
      uniqueEmojis == Range(emojiArray)
  IN  [totalEmojis |-> Len(emojiArray),
       uniqueEmojis |-> Cardinality(uniqueEmojis),
       compressionRatio |-> <<Cardinality(uniqueEmojis), Len(emojiArray)>>,
       estimatedBytes |-> Len(emojiArray),
       visualLength |->
         Len(Flatten([i \in 1..Len(emojiString) |-> CodeUnitsOf(emojiString[i])]))]

\* !s.trim()
TrimIsEmpty(s) == \A i \in 1..Len(s) : IsWhiteSpace(s[i])

\* The messages thrown inside handleDecrypt that its catch block tells apart
\* with errorMessage.includes(...).
MentionsPassword == {"Decryption failed: Invalid password or corrupted data"}
MentionsEmojiData ==
  {"Invalid emoji format - failed to convert to base64", "Invalid base64 data",
   "Invalid emoji format - corrupted data"}

\* The catch block of handleDecrypt: the message shown for the one thrown.
handleDecryptCatch(errorMessage) ==
  IF errorMessage \in MentionsPassword
  THEN "Decryption failed: Invalid password"
  ELSE IF errorMessage \in MentionsEmojiData
       THEN "Decryption failed: Invalid or corrupted emoji data"
  ELSE "Decryption failed: " \o errorMessage

\* handleDecrypt from unformatEmojis up to the call of decryptText: the
\* library functions called, and the message thrown or the DecryptionInput.
handleDecryptSteps(v, resultText, pw) ==
  LET c2 == <<"unformatEmojis", "emojisToBase64Public">>
      c3 == Append(c2, "atob")
      c4 == Append(c3, "JSON.parse")
      stop(c, m) == [calls |-> c, thrown |-> m, input |-> Err(m)]
      parsed(encryptionResult) ==
        LET r == encryptionResult.val
        IN  IF ~encryptionResult.ok
            THEN stop(c4, "Invalid emoji format - corrupted data")
            ELSE IF Falsy(r.encrypted) \/ Falsy(r.salt) \/ Falsy(r.iv)
                    \/ Falsy(r.tag)
                 THEN stop(c4, "Invalid encryption data structure")
            ELSE [calls |-> Append(c4, "decryptText"), thrown |-> "",
                  input |-> Ok([encrypted |-> r.encrypted, salt |-> r.salt,
                                iv |-> r.iv, tag |-> r.tag, password |-> pw])]
      decoded64(combinedData) ==
        IF ~combinedData.ok THEN stop(c3, "Invalid base64 data")
        ELSE parsed(JSONparse(combinedData.val))
      converted(combinedBase64) ==
        IF ~combinedBase64.ok
        THEN stop(c2, "Invalid emoji format - failed to convert to base64")
        ELSE decoded64(atob(combinedBase64.val))
  IN  converted(emojisToBase64Public(v, unformatEmojis(v, resultText)))

\* What the user types: a blank or "a" as text, "p" or "q" as password.
TypedTexts == {<<32>>, <<97>>}
TypedPasswords == {<<112>>, <<113>>}

\* An emoji text written by hand: a package of the right field lengths whose
\* JSON text spells the key "iv" as "iv".
HandJson ==
  LET member(key, n) ==
        key \o <<58>> \o JsonQuote(arrayBufferToBase64([i \in 1..n |-> 0]))
  IN  <<123>> \o member(JsonQuote(KeyEncrypted), 1) \o <<44>>
        \o member(JsonQuote(KeySalt), SALT_LENGTH) \o <<44>>
        \o member(<<34, 92, 117, 48, 48, 54, 57, 118, 34>>, IV_LENGTH) \o <<44>>
        \o member(JsonQuote(KeyTag), TAG_LENGTH) \o <<125>>
HandEmojis == base64ToEmojis("page", btoa(HandJson).val).val

\* What the user pastes into the emoji input: "x", the hand-written emoji
\* text, or the clipboard.
PastedTexts == {<<120>>, HandEmojis}

appRest == <<text, encrypted, input, decrypted, codecVars, frameVars, callVars, tableVars, checksumRun, formatRun>>

InitApp ==
  /\ variant \in Variants
  /\ platform \in Platforms
  /\ CodecIdle
  /\ FrameIdle
  /\ CryptoIdle
  /\ AppIdle
  /\ CallsIdle
  /\ TablesIdle
  /\ ChecksumIdle
  /\ FormatIdle

\* onChange of the left textarea in encrypt mode
SetInputText ==
  /\ mode = "encrypt"
  /\ \E t \in TypedTexts : inputText' = t
  /\ UNCHANGED <<variant, platform, password, mode, result, isProcessing, error,
                 success, emojiStats, pending, calls, clipboard, appRest>>

\* onChange of the left textarea in decrypt mode: typed or pasted
SetResult ==
  /\ mode = "decrypt"
  /\ \E t \in PastedTexts \cup {clipboard} : result' = t
  /\ UNCHANGED <<variant, platform, password, mode, inputText, isProcessing,
                 error, success, emojiStats, pending, calls, clipboard, appRest>>

\* onChange of the password field
SetPassword ==
  /\ \E p \in TypedPasswords : password' = p
  /\ UNCHANGED <<variant, platform, mode, inputText, result, isProcessing, error,
                 success, emojiStats, pending, calls, clipboard, appRest>>

\* handleModeChange(newMode)
HandleModeChange ==
  /\ \E newMode \in {"encrypt", "decrypt"} : mode' = newMode
  /\ inputText' = <<>>
  /\ result' = <<>>
  /\ error' = ""
  /\ success' = ""
  /\ emojiStats' = {}
  /\ UNCHANGED <<variant, platform, password, isProcessing, pending, calls,
                 clipboard, appRest>>

\* handleCopy; the button shows in encrypt mode when there is a result, and
\* copyToClipboard may fail
HandleCopy ==
  /\ mode = "encrypt" /\ result # <<>>
  /\ \E copied \in BOOLEAN :
       IF copied
       THEN /\ clipboard' = (IF mode = "encrypt" THEN result ELSE inputText)
            /\ success' = "Copied to clipboard!"
            /\ UNCHANGED error
       ELSE /\ error' = "Failed to copy to clipboard"
            /\ UNCHANGED <<clipboard, success>>
  /\ UNCHANGED <<variant, platform, password, mode, inputText, result,
                 isProcessing, emojiStats, pending, calls, appRest>>

\* An action button that stays enabled.
ActionButtonDisabled_never(processing) == FALSE

\* disabled={isProcessing} of the action button
ActionButtonDisabled(processing) == processing

\* handleEncrypt up to `await encryptText(inputText, password)`; the button
\* is disabled while isProcessing
HandleEncrypt ==
  /\ mode = "encrypt" /\ ~ActionButtonDisabled(isProcessing)
  /\ IF TrimIsEmpty(inputText)
     THEN /\ error' = "Please enter text to encrypt"
          /\ UNCHANGED <<isProcessing, success, pending, calls>>
     ELSE IF password = <<>>
     THEN /\ error' = "Please enter a password"
          /\ UNCHANGED <<isProcessing, success, pending, calls>>
     ELSE IF ~platform.subtle
     THEN /\ error' =
               "Encryption not available: This app requires a secure context (HTTPS)"
          /\ UNCHANGED <<isProcessing, success, pending, calls>>
     ELSE /\ isProcessing' = TRUE
          /\ error' = ""
          /\ success' = ""
          /\ calls' = <<"encryptText">>
          /\ \E s \in Seeds :
               pending' =
                 [op |-> "encrypt",
                  outcome |-> encryptText(platform, inputText, password,
                                          Draw(s, SALT_LENGTH),
                                          Draw(s + 2, IV_LENGTH))]
  /\ UNCHANGED <<variant, platform, password, mode, inputText, result,
                 emojiStats, clipboard, appRest>>

\* A handler without its finally block leaves isProcessing as it is.
setIsProcessingFinally_absent(processing) == processing

\* finally { setIsProcessing(false) }
setIsProcessingFinally(processing) == FALSE

\* handleEncrypt from the resolution of encryptText on
ResolveEncrypt ==
  /\ pending.op = "encrypt"
  /\ \E emojiEncoded \in {IF pending.outcome.ok
                          THEN encodeToEmojis(variant, pending.outcome.val)
                          ELSE NotCalled} :
       LET encryptionResult == pending.outcome
           formattedEmojis == formatEmojisForDisplay(emojiEncoded.val.emojis, 12)
       IN
         IF ~encryptionResult.ok
         THEN /\ error' = encryptionResult.err
              /\ UNCHANGED <<result, emojiStats, success, calls>>
         ELSE IF ~emojiEncoded.ok
         THEN /\ error' = emojiEncoded.err
              /\ calls' = Append(calls, "encodeToEmojis")
              /\ UNCHANGED <<result, emojiStats, success>>
         ELSE /\ result' = formattedEmojis
              /\ emojiStats' = {getEmojiStats(emojiEncoded.val.emojis)}
              /\ success' = "Text encrypted successfully!"
              /\ calls' = calls \o <<"encodeToEmojis", "formatEmojisForDisplay",
                                     "getEmojiStats">>
              /\ UNCHANGED error
  /\ isProcessing' = setIsProcessingFinally(isProcessing)
  /\ pending' = NoOp
  /\ UNCHANGED <<variant, platform, password, mode, inputText, clipboard,
                 appRest>>

\* handleDecrypt up to `await decryptText({...encryptionResult, password})`
HandleDecrypt ==
  /\ mode = "decrypt" /\ ~ActionButtonDisabled(isProcessing)
  /\ IF TrimIsEmpty(result)
     THEN /\ error' = "Please enter emoji code to decrypt"
          /\ UNCHANGED <<isProcessing, success, pending, calls>>
     ELSE IF password = <<>>
     THEN /\ error' = "Please enter the decryption password"
          /\ UNCHANGED <<isProcessing, success, pending, calls>>
     ELSE IF ~platform.subtle
     THEN /\ error' =
               "Decryption not available: This app requires a secure context (HTTPS)"
          /\ UNCHANGED <<isProcessing, success, pending, calls>>
     ELSE \E steps \in {handleDecryptSteps(variant, result, password)} :
            /\ calls' = steps.calls
            /\ success' = ""
            /\ IF steps.input.ok
               THEN /\ isProcessing' = TRUE
                    /\ error' = ""
                    /\ pending' =
                         [op |-> "decrypt",
                          outcome |-> decryptText(platform, steps.input.val)]
               ELSE /\ isProcessing' = setIsProcessingFinally(TRUE)
                    /\ error' = handleDecryptCatch(steps.thrown)
                    /\ UNCHANGED pending
  /\ UNCHANGED <<variant, platform, password, mode, inputText, result,
                 emojiStats, clipboard, appRest>>

\* handleDecrypt from the resolution of decryptText on
ResolveDecrypt ==
  /\ pending.op = "decrypt"
  /\ LET decryptedText == pending.outcome
     IN  IF decryptedText.ok
         THEN /\ inputText' = decryptedText.val
              /\ success' = "Text decrypted successfully!"
              /\ UNCHANGED error
         ELSE /\ error' = handleDecryptCatch(decryptedText.err)
              /\ UNCHANGED <<inputText, success>>
  /\ isProcessing' = setIsProcessingFinally(isProcessing)
  /\ pending' = NoOp
  /\ UNCHANGED <<variant, platform, password, mode, result, emojiStats, calls,
                 clipboard, appRest>>

NextApp ==
  \/ SetInputText
  \/ SetResult
  \/ SetPassword
  \/ HandleModeChange
  \/ HandleCopy
  \/ HandleEncrypt
  \/ ResolveEncrypt
  \/ HandleDecrypt
  \/ ResolveDecrypt

SpecApp == InitApp /\ [][NextApp]_vars

\* C8: on the decrypt path the checksum is recomputed and compared before
\* decryptText is attempted: every call of decryptText by handleDecrypt comes
\* after a call of calculateChecksum.
C8_ChecksumBeforeDecrypt ==
  \A i \in 1..Len(calls) :
    calls[i] = "decryptText" => \E j \in 1..(i - 1) : calls[j] = "calculateChecksum"

\* The emoji text handleEncrypt writes to result for text t and password p
\* when getRandomValues fills the buffers from draw s.
EncryptedEmojiText(v, pf, t, p, s) ==
  LET shown(emojiEncoded) ==
        IF ~emojiEncoded.ok THEN emojiEncoded
        ELSE Ok(formatEmojisForDisplay(emojiEncoded.val.emojis, 12))
      encoded(encryptionResult) ==
        IF ~encryptionResult.ok THEN encryptionResult
        ELSE shown(encodeToEmojis(v, encryptionResult.val))
  IN  encoded(encryptText(pf, t, p, Draw(s, SALT_LENGTH), Draw(s + 2, IV_LENGTH)))

\* handleDecrypt runs on an emoji text that handleEncrypt wrote for (t, p):
\* with the password p decryptText yields t, with another password it fails.
C11_DecryptStep ==
  (mode = "decrypt" /\ HandleDecrypt) =>
    \A t \in TypedTexts, p \in TypedPasswords, s \in Seeds :
      \A shown \in {EncryptedEmojiText(variant, platform, t, p, s)} :
        (~TrimIsEmpty(t) /\ shown.ok /\ result = shown.val) =>
          /\ pending'.op = "decrypt"
          /\ IF password = p THEN pending'.outcome = Ok(t)
             ELSE ~pending'.outcome.ok

\* handleDecrypt ends: the text and a success message, or an error and no text.
C11_ResolveStep ==
  (pending.op = "decrypt" /\ pending'.op = "none") =>
    IF pending.outcome.ok
    THEN inputText' = pending.outcome.val /\ success' = "Text decrypted successfully!"
    ELSE error' # "" /\ inputText' = inputText

\* C11: the emoji text that handleEncrypt writes to result for text t and
\* password p, used as the emoji input of handleDecrypt with the password p,
\* ends with inputText = t and a success message; with another password it
\* ends with an error and no plaintext.
C11_AppRoundTrip == [][C11_DecryptStep /\ C11_ResolveStep]_vars

(***************************************************************************)
(* SpecCalls: two calls of encryptText / decryptText running concurrently. *)
(* A call runs from one await to the next in one step; between two steps   *)
(* of a call the other call may run.  getRandomValues never returns the    *)
(* same bytes twice.                                                       *)
(***************************************************************************)
\* The activation of call c: each call of a function has locals of its own.
Frame_shared(c) == 1
Frame(c) == c

\* What the n-th call of getRandomValues writes (n = drawCount + 1).
getRandomValues_repeating(count, length) == Draw(1, length)
getRandomValues(count, length) == Draw(count + 1, length)

\* !text || !password
RequiredArgsMissing_textOnly(txt, pw) == txt = <<>>
RequiredArgsMissing(txt, pw) == txt = <<>> \/ pw = <<>>

\* The catch block of encryptText
encryptTextCatch(message) == Err("Encryption failed: " \o message)

\* deriveKey up to `await crypto.subtle.importKey(...)`: passwordBytes
deriveKeyStart_leaky(pf, pw) ==
  IF ~pf.subtle
  THEN Err("Web Crypto API not available for " \o ToString(pw))
  ELSE Ok(TextEncode(pw))
deriveKeyStart(pf, pw) ==
  IF ~pf.subtle THEN Err("Web Crypto API not available")
  ELSE Ok(TextEncode(pw))

\* buffer.fill(0)
Fill0(buffer) == [i \in 1..Len(buffer) |-> 0]

\* A package made earlier, and the same with a salt one byte short.
SamplePackage ==
  encryptText(FullPlatform, <<97>>, <<112>>, Draw(9, SALT_LENGTH),
              Draw(11, IV_LENGTH)).val
ShortSaltPackage ==
  [SamplePackage EXCEPT !.salt = Malformed(SamplePackage.salt, "shorter")]

\* The same package with one field missing, empty or of another length.
RejectedPackages ==
  {[SamplePackage EXCEPT ![m[1]] = Malformed(SamplePackage[m[1]], m[2])] :
     m \in {<<"iv", "longer">>, <<"tag", "shorter">>,
            <<"encrypted", "missing">>, <<"tag", "empty">>}}

\* The length checks of decryptText: the message thrown, "" when none is.
InvalidLength_saltOnly(saltBytes, ivBytes, tagBytes) ==
  IF Len(saltBytes) # SALT_LENGTH THEN "Invalid salt length" ELSE ""

InvalidLength(saltBytes, ivBytes, tagBytes) ==
  IF Len(saltBytes) # SALT_LENGTH THEN "Invalid salt length"
  ELSE IF Len(ivBytes) # IV_LENGTH THEN "Invalid IV length"
  ELSE IF Len(tagBytes) # TAG_LENGTH THEN "Invalid tag length"
  ELSE ""

\* The arguments of a call.
CallArgs ==
  [kind : {"encryptText"}, text : {<<>>, <<97>>, <<98>>},
   password : {<<>>, <<112>>, <<113>>}, package : {NoPackage}]
  \cup [kind : {"decryptText"}, text : {<<>>}, password : {<<112>>, <<113>>},
        package : {SamplePackage, ShortSaltPackage}]
  \cup [kind : {"decryptText"}, text : {<<>>}, password : {<<>>},
        package : {SamplePackage}]
  \cup [kind : {"decryptText"}, text : {<<>>}, password : {<<112>>},
        package : RejectedPackages]

NewCall(args) ==
  [kind |-> args.kind, text |-> args.text, password |-> args.password,
   package |-> args.package, pc |-> "start", did |-> <<>>, out |-> NotCalled]

InitCalls ==
  /\ variant = "page"
  /\ platform \in Platforms
  /\ invocation \in [CallIds -> {NewCall(a) : a \in CallArgs}]
  /\ locals = [c \in CallIds |-> NoLocals]
  /\ drawCount = 0
  /\ CodecIdle
  /\ FrameIdle
  /\ CryptoIdle
  /\ AppIdle
  /\ TablesIdle
  /\ ChecksumIdle
  /\ FormatIdle

callRest ==
  <<variant, platform, codecVars, frameVars, cryptoVars, appVars, tableVars, checksumRun, formatRun>>

\* The call ends: it returns or throws r.
Ends(c, r, did) ==
  invocation' = [invocation EXCEPT ![c].pc = "done", ![c].out = r,
                                   ![c].did = invocation[c].did \o did]
Awaits(c, pc, did) ==
  invocation' = [invocation EXCEPT ![c].pc = pc,
                                   ![c].did = invocation[c].did \o did]

\* encryptText from its first line to `await crypto.subtle.importKey` inside
\* deriveKey
EncryptTextStart(c) ==
  /\ invocation[c].kind = "encryptText" /\ invocation[c].pc = "start"
  /\ \E salt \in {getSecureRandomBytes(platform, SALT_LENGTH,
                                       getRandomValues(drawCount, SALT_LENGTH))},
        iv \in {getSecureRandomBytes(platform, IV_LENGTH,
                                     getRandomValues(drawCount + 1, IV_LENGTH))},
        passwordBytes \in {deriveKeyStart(platform, invocation[c].password)},
        plaintext \in {TextEncode(invocation[c].text)} :
       IF RequiredArgsMissing(invocation[c].text, invocation[c].password)
       THEN /\ Ends(c, encryptTextCatch("Text and password are required"), <<>>)
            /\ UNCHANGED <<locals, drawCount>>
       ELSE IF ~salt.ok
       THEN /\ Ends(c, encryptTextCatch(salt.err), <<>>)
            /\ locals' = [locals EXCEPT ![Frame(c)].plaintext = plaintext]
            /\ UNCHANGED drawCount
       ELSE IF ~passwordBytes.ok
       THEN /\ Ends(c, encryptTextCatch(passwordBytes.err),
                    <<"getRandomValues", "getRandomValues">>)
            /\ locals' = [locals EXCEPT ![Frame(c)].plaintext = plaintext,
                                        ![Frame(c)].salt = salt.val,
                                        ![Frame(c)].iv = iv.val]
            /\ drawCount' = drawCount + 2
       ELSE /\ Awaits(c, "importKey",
                      <<"getRandomValues", "getRandomValues", "importKey">>)
            /\ locals' = [locals EXCEPT ![Frame(c)].plaintext = plaintext,
                                        ![Frame(c)].salt = salt.val,
                                        ![Frame(c)].iv = iv.val,
                                        ![Frame(c)].passwordBytes =
                                          passwordBytes.val]
            /\ drawCount' = drawCount + 2
  /\ UNCHANGED callRest

\* decryptText from its first line to `await crypto.subtle.importKey` inside
\* deriveKey
DecryptTextStart(c) ==
  /\ invocation[c].kind = "decryptText" /\ invocation[c].pc = "start"
  /\ \E in \in {WithPassword(invocation[c].package, invocation[c].password)} :
     \E ciphertext \in {base64ToArrayBuffer(in.encrypted)},
        saltBytes \in {base64ToArrayBuffer(in.salt)},
        ivBytes \in {base64ToArrayBuffer(in.iv)},
        tagBytes \in {base64ToArrayBuffer(in.tag)},
        passwordBytes \in {deriveKeyStart(platform, in.password)} :
       IF Falsy(in.encrypted) \/ Falsy(in.salt) \/ Falsy(in.iv)
          \/ Falsy(in.tag) \/ Falsy(in.password)
       THEN /\ Ends(c, decryptTextCatch(Err("All decryption parameters are required")),
                    <<>>)
            /\ UNCHANGED locals
       ELSE IF ~ciphertext.ok \/ ~saltBytes.ok \/ ~ivBytes.ok \/ ~tagBytes.ok
       THEN /\ Ends(c, decryptTextCatch(Err("InvalidCharacterError")), <<>>)
            /\ UNCHANGED locals
       ELSE IF InvalidLength(saltBytes.val, ivBytes.val, tagBytes.val) # ""
       THEN /\ Ends(c, decryptTextCatch(Err(InvalidLength(saltBytes.val,
                                                          ivBytes.val,
                                                          tagBytes.val))),
                    <<>>)
            /\ UNCHANGED locals
       ELSE IF ~passwordBytes.ok
       THEN /\ Ends(c, decryptTextCatch(passwordBytes), <<>>)
            /\ locals' = [locals EXCEPT ![Frame(c)].salt = saltBytes.val,
                                        ![Frame(c)].iv = ivBytes.val]
       ELSE /\ Awaits(c, "importKey", <<"importKey">>)
            /\ locals' = [locals EXCEPT ![Frame(c)].salt = saltBytes.val,
                                        ![Frame(c)].iv = ivBytes.val,
                                        ![Frame(c)].encryptedData =
                                          ciphertext.val \o tagBytes.val,
                                        ![Frame(c)].passwordBytes =
                                          passwordBytes.val]
  /\ UNCHANGED <<drawCount, callRest>>

\* importKey resolves: deriveKey goes on to `await crypto.subtle.deriveKey`
ImportKeyResolves(c) ==
  /\ invocation[c].pc = "importKey"
  /\ Awaits(c, "deriveKey", <<"deriveKey">>)
  /\ locals' = [locals EXCEPT ![Frame(c)].keyMaterial =
                                locals[Frame(c)].passwordBytes]
  /\ UNCHANGED <<drawCount, callRest>>

\* crypto.subtle.deriveKey resolves: deriveKey clears passwordBytes and
\* returns the key
DeriveKeyResolves(c) ==
  /\ invocation[c].pc = "deriveKey"
  /\ Awaits(c, "derived", <<>>)
  /\ locals' = [locals EXCEPT ![Frame(c)].key =
                                [pw |-> locals[Frame(c)].keyMaterial,
                                 salt |-> locals[Frame(c)].salt],
                              ![Frame(c)].passwordBytes =
                                Fill0(locals[Frame(c)].passwordBytes)]
  /\ UNCHANGED <<drawCount, callRest>>

\* `await deriveKey(...)` resumes in encryptText, up to
\* `await crypto.subtle.encrypt(...)`
EncryptTextResumes(c) ==
  /\ invocation[c].kind = "encryptText" /\ invocation[c].pc = "derived"
  /\ Awaits(c, "encrypt", <<"encrypt">>)
  /\ locals' = [locals EXCEPT ![Frame(c)].encrypted =
                                AesGcmEncrypt(locals[Frame(c)].key,
                                              locals[Frame(c)].iv,
                                              locals[Frame(c)].plaintext)]
  /\ UNCHANGED <<drawCount, callRest>>

\* `await deriveKey(...)` resumes in decryptText, up to
\* `await crypto.subtle.decrypt(...)`
DecryptTextResumes(c) ==
  /\ invocation[c].kind = "decryptText" /\ invocation[c].pc = "derived"
  /\ Awaits(c, "decrypt", <<"decrypt">>)
  /\ locals' = [locals EXCEPT ![Frame(c)].decrypted =
                                AesGcmDecrypt(locals[Frame(c)].key,
                                              locals[Frame(c)].iv,
                                              locals[Frame(c)].encryptedData)]
  /\ UNCHANGED <<drawCount, callRest>>

\* crypto.subtle.encrypt resolves: encryptText splits the bytes, builds the
\* result, clears plaintext and returns
EncryptResolves(c) ==
  /\ invocation[c].pc = "encrypt"
  /\ \E encryptedBytes \in {locals[Frame(c)].encrypted} :
       Ends(c, Ok([encrypted |->
                     arrayBufferToBase64(
                       SubSeq(encryptedBytes, 1,
                              Len(encryptedBytes) - TAG_LENGTH)),
                   salt |-> arrayBufferToBase64(locals[Frame(c)].salt),
                   iv |-> arrayBufferToBase64(locals[Frame(c)].iv),
                   tag |->
                     arrayBufferToBase64(
                       SubSeq(encryptedBytes,
                              Len(encryptedBytes) - TAG_LENGTH + 1,
                              Len(encryptedBytes)))]),
            <<>>)
  /\ locals' = [locals EXCEPT ![Frame(c)].plaintext =
                                Fill0(locals[Frame(c)].plaintext)]
  /\ UNCHANGED <<drawCount, callRest>>

\* crypto.subtle.decrypt resolves or rejects: decryptText decodes the text
\* and returns, or throws from its catch block
DecryptResolves(c) ==
  /\ invocation[c].pc = "decrypt"
  /\ \E plain \in {locals[Frame(c)].decrypted} :
       IF plain.ok THEN Ends(c, Ok(TextDecode(plain.val)), <<>>)
       ELSE Ends(c, decryptTextCatch(plain), <<>>)
  /\ UNCHANGED <<locals, drawCount, callRest>>

NextCalls ==
  \E c \in CallIds :
    \/ EncryptTextStart(c)
    \/ DecryptTextStart(c)
    \/ ImportKeyResolves(c)
    \/ DeriveKeyResolves(c)
    \/ EncryptTextResumes(c)
    \/ DecryptTextResumes(c)
    \/ EncryptResolves(c)
    \/ DecryptResolves(c)

SpecCalls == InitCalls /\ [][NextCalls]_vars

Done(c) == invocation[c].pc = "done"

\* C12: encryptText called with an empty text or an empty password fails with
\* the invalid-input error before any cryptographic work: no random bytes
\* are drawn, no key is derived, nothing is encrypted.
C12_InvalidInputFirst ==
  \A c \in CallIds :
    (/\ invocation[c].kind = "encryptText"
     /\ Done(c)
     /\ (invocation[c].text = <<>> \/ invocation[c].password = <<>>))
      => /\ invocation[c].out =
              Err("Encryption failed: Text and password are required")
         /\ invocation[c].did = <<>>
         /\ locals[Frame(c)] = NoLocals

\* encryptText has ended on an empty password and a non-empty text, on a
\* platform where it would have drawn bytes and derived a key.
C12_Witness ==
  \E c \in CallIds :
    /\ invocation[c].kind = "encryptText" /\ Done(c)
    /\ invocation[c].text # <<>> /\ invocation[c].password = <<>>
    /\ platform = FullPlatform

\* Two calls of encryptText with the same text and password have returned.
SameArgsEncrypted(c, d) ==
  /\ c # d
  /\ invocation[c].kind = "encryptText" /\ invocation[d].kind = "encryptText"
  /\ invocation[c].text = invocation[d].text
  /\ invocation[c].password = invocation[d].password
  /\ Done(c) /\ invocation[c].out.ok
  /\ Done(d) /\ invocation[d].out.ok

\* C17: two calls of encryptText with identical plaintext and password return
\* packages with different salt, different iv and different ciphertext/tag.
C17_FreshSaltAndIv ==
  \A c, d \in CallIds :
    SameArgsEncrypted(c, d) =>
      /\ invocation[c].out.val.salt # invocation[d].out.val.salt
      /\ invocation[c].out.val.iv # invocation[d].out.val.iv
      /\ <<invocation[c].out.val.encrypted, invocation[c].out.val.tag>>
           # <<invocation[d].out.val.encrypted, invocation[d].out.val.tag>>

\* Both calls have drawn their bytes and returned a package.
C17_Witness ==
  /\ SameArgsEncrypted(1, 2)
  /\ drawCount = 4

\* What the call c returns or throws when it runs alone, with the random
\* bytes its package shows.
RunAlone(c) ==
  IF invocation[c].kind = "decryptText"
  THEN decryptText(platform, WithPassword(invocation[c].package,
                                          invocation[c].password))
  ELSE IF invocation[c].out.ok
  THEN encryptText(platform, invocation[c].text, invocation[c].password,
                   atob(invocation[c].out.val.salt).val,
                   atob(invocation[c].out.val.iv).val)
  ELSE encryptText(platform, invocation[c].text, invocation[c].password,
                   getRandomValues(0, SALT_LENGTH), getRandomValues(1, IV_LENGTH))

\* C18: calls of encryptText and decryptText that run concurrently share no
\* mutable state: for every interleaving at the await points, a call returns
\* or throws what it would have alone.
C18_CallsIndependent ==
  \A c \in CallIds : Done(c) => invocation[c].out = RunAlone(c)

\* A call has run from start to end while the other call, started before it,
\* is suspended at an await.
C18_Witness ==
  \E c, d \in CallIds :
    /\ c # d
    /\ Done(c) /\ invocation[c].out.ok
    /\ invocation[d].pc \in {"importKey", "deriveKey", "derived", "encrypt"}
    /\ invocation[d].kind = "encryptText"
    /\ locals[Frame(d)].salt = getRandomValues(0, SALT_LENGTH)

\* Two calls that differ only in the password have failed in the same way:
\* after the same operations, and not by one password being absent.
SameFailure(c, d) ==
  /\ c # d
  /\ invocation[c].kind = invocation[d].kind
  /\ invocation[c].text = invocation[d].text
  /\ invocation[c].package = invocation[d].package
  /\ invocation[c].password # invocation[d].password
  /\ (invocation[c].password = <<>>) = (invocation[d].password = <<>>)
  /\ Done(c) /\ ~invocation[c].out.ok
  /\ Done(d) /\ ~invocation[d].out.ok
  /\ invocation[c].did = invocation[d].did

\* C19: no error of encryptText or decryptText holds the password or key
\* material: two calls that fail in the same way and differ only in the
\* password throw identical errors.
C19_ErrorsWithoutPassword ==
  \A c, d \in CallIds : SameFailure(c, d) => invocation[c].out = invocation[d].out

\* encryptText has failed inside deriveKey for two different passwords.
C19_Witness ==
  /\ SameFailure(1, 2)
  /\ invocation[1].kind = "encryptText"
  /\ invocation[1].did = <<"getRandomValues", "getRandomValues">>

\* The buffer does not exist or holds zeros only.
Cleared(buffer) == buffer = Undefined \/ buffer = Fill0(buffer)

\* C20: after a call of encryptText has ended, by returning or by throwing,
\* the password byte buffer of deriveKey and the plaintext byte buffer, when
\* they were created, are zero-filled.
C20_BuffersZeroed ==
  \A c \in CallIds :
    (invocation[c].kind = "encryptText" /\ Done(c))
      => /\ Cleared(locals[Frame(c)].plaintext)
         /\ Cleared(locals[Frame(c)].passwordBytes)

\* The errors of encryptText for a runtime without a secure random source or
\* without the Web Crypto API.
CryptoUnavailable ==
  {"Encryption failed: Secure random number generation not available",
   "Encryption failed: Web Crypto API not available"}

\* C21: when the runtime has no secure random source or no Web Crypto
\* primitive, encryptText fails with a crypto-unavailable error and returns no
\* package; without a secure source no random bytes are taken from anywhere.
C21_CryptoUnavailable ==
  \A c \in CallIds :
    (/\ invocation[c].kind = "encryptText" /\ Done(c)
     /\ invocation[c].text # <<>> /\ invocation[c].password # <<>>
     /\ (~platform.getRandomValues \/ ~platform.subtle))
      => /\ ~invocation[c].out.ok
         /\ invocation[c].out.val = <<>>
         /\ invocation[c].out.err \in CryptoUnavailable
         /\ ~platform.getRandomValues =>
              /\ invocation[c].did = <<>>
              /\ locals[Frame(c)].salt = <<>>
              /\ locals[Frame(c)].iv = <<>>

\* encryptText has ended, with a text and a password, on a runtime that has
\* crypto.subtle but no getRandomValues.
C21_Witness ==
  \E c \in CallIds :
    /\ invocation[c].kind = "encryptText" /\ Done(c)
    /\ invocation[c].text # <<>> /\ invocation[c].password # <<>>
    /\ ~platform.getRandomValues /\ platform.subtle

(***************************************************************************)
(* SpecTables: the module-level tables EMOJI_ALPHABET and EMOJI_TO_BYTE    *)
(* as state.  They are filled when the module is loaded; afterwards the    *)
(* exported functions are called in any order, with any input, and each    *)
(* function reads the tables as they are at the time of the call.          *)
(***************************************************************************)
\* The map a decoder would leave behind if it stored every symbol it does not
\* know with EMOJI_TO_BYTE.set(emoji, 0).
toByteTableAfterGet_caching(map, emojiArray) ==
  [k \in DOMAIN map \cup Range(emojiArray) |->
     IF k \in DOMAIN map THEN map[k] ELSE 0]

\* emojisToBase64 uses the map through EMOJI_TO_BYTE.get(emoji) only.
toByteTableAfterGet(map, emojiArray) == map

TableBytes == SeqsUpTo({0, 65}, MaxBytes) \cup {<<18>>, <<237>>, <<240>>}
TableEmojis ==
  {base64ToEmojis(v, btoa(b).val).val : v \in Variants, b \in TableBytes}
    \cup {<<120>>, WithVariationSelector(18), WithoutVariationSelector(18),
          WithoutVariationSelector(0) \o <<120>>}

InitTables ==
  /\ variant \in Variants
  /\ platform = FullPlatform
  /\ alphabetTable = EMOJI_ALPHABET(variant)
  /\ toByteTable = EMOJI_TO_BYTE(variant)
  /\ lastCall = NoCall
  /\ CodecIdle
  /\ FrameIdle
  /\ CryptoIdle
  /\ AppIdle
  /\ CallsIdle
  /\ ChecksumIdle
  /\ FormatIdle

tableRest ==
  <<variant, platform, codecVars, frameVars, cryptoVars, appVars, callVars,
    checksumRun, formatRun>>

Returns(op, in, arg, out) ==
  lastCall' = [op |-> op, input |-> in, arg |-> arg, output |-> out,
               failedBefore |-> \/ lastCall.failedBefore
                                \/ (Called(lastCall.output)
                                      /\ ~lastCall.output.ok)]

CallBase64ToEmojis ==
  \E b \in TableBytes :
    /\ Returns("base64ToEmojis", btoa(b).val, 0,
               base64ToEmojisOn(alphabetTable, variant, btoa(b).val))
    /\ UNCHANGED <<alphabetTable, toByteTable, tableRest>>

CallEmojisToBase64 ==
  \E s \in TableEmojis :
    /\ Returns("emojisToBase64", s, 0,
               emojisToBase64On(toByteTable, variant, s))
    /\ toByteTable' =
         toByteTableAfterGet(toByteTable,
                             ArrayFrom(IF variant = "page" THEN NFC(s) ELSE s))
    /\ UNCHANGED <<alphabetTable, tableRest>>

CallFormatEmojisForDisplay ==
  \E s \in TableEmojis, g \in 1..MaxGroupSize :
    /\ Returns("formatEmojisForDisplay", s, g, Ok(formatEmojisForDisplay(s, g)))
    /\ UNCHANGED <<alphabetTable, toByteTable, tableRest>>

CallUnformatEmojis ==
  \E s \in TableEmojis :
    /\ Returns("unformatEmojis", s, 0, Ok(unformatEmojis(variant, s)))
    /\ UNCHANGED <<alphabetTable, toByteTable, tableRest>>

CallGetEmojiStats ==
  \E s \in TableEmojis :
    /\ Returns("getEmojiStats", s, 0, Ok(getEmojiStats(s)))
    /\ UNCHANGED <<alphabetTable, toByteTable, tableRest>>

NextTables ==
  \/ CallBase64ToEmojis
  \/ CallEmojisToBase64
  \/ CallFormatEmojisForDisplay
  \/ CallUnformatEmojis
  \/ CallGetEmojiStats

SpecTables == InitTables /\ [][NextTables]_vars

\* C22: after any sequence of encode, decode, format, unformat and stats
\* calls, failed ones included, the alphabet table and the reverse map are
\* what module initialisation made them, and the latest encode or decode
\* call returned what the same input returns on the tables of a freshly
\* loaded module.
C22_TablesNeverMutated ==
  /\ alphabetTable = EMOJI_ALPHABET(variant)
  /\ toByteTable = EMOJI_TO_BYTE(variant)
  /\ lastCall.op = "base64ToEmojis"
       => lastCall.output = base64ToEmojis(variant, lastCall.input)
  /\ lastCall.op = "emojisToBase64"
       => lastCall.output = emojisToBase64(variant, lastCall.input)

\* A decode call that succeeds after an earlier call has failed.
C22_Witness ==
  /\ lastCall.op = "emojisToBase64"
  /\ lastCall.failedBefore
  /\ lastCall.output.ok
  /\ lastCall.input # <<>>

\* The package or the password of a decryptText call is one that the checks
\* at the top of decryptText turn down.
Rejected(c) ==
  \E in \in {WithPassword(invocation[c].package, invocation[c].password)} :
    /\ invocation[c].kind = "decryptText"
    /\ \/ Falsy(in.encrypted) \/ Falsy(in.salt) \/ Falsy(in.iv)
       \/ Falsy(in.tag) \/ Falsy(in.password)
       \/ /\ base64ToArrayBuffer(in.salt).ok
          /\ Len(base64ToArrayBuffer(in.salt).val) # SALT_LENGTH
       \/ /\ base64ToArrayBuffer(in.iv).ok
          /\ Len(base64ToArrayBuffer(in.iv).val) # IV_LENGTH
       \/ /\ base64ToArrayBuffer(in.tag).ok
          /\ Len(base64ToArrayBuffer(in.tag).val) # TAG_LENGTH

\* C23: a decryptText call whose package lacks a field, whose password is
\* empty, or whose salt, iv or tag does not decode to 32, 12 or 16 bytes
\* never reaches deriveKey or crypto.subtle.decrypt: it is at its start or has
\* ended with an error, no importKey, deriveKey or decrypt has been invoked
\* and no key material or key exists.
C23_RejectedBeforeDerivation ==
  \A c \in CallIds :
    Rejected(c)
      => /\ invocation[c].pc \in {"start", "done"}
         /\ invocation[c].did = <<>>
         /\ Done(c) => ~invocation[c].out.ok
         /\ locals[Frame(c)].passwordBytes = NoLocals.passwordBytes
         /\ locals[Frame(c)].keyMaterial = NoLocals.keyMaterial
         /\ locals[Frame(c)].key = NoLocals.key
         /\ locals[Frame(c)].decrypted = NoLocals.decrypted

\* A call with a 13-byte iv has ended, on a platform where a well-formed
\* package goes on to derive a key.
C23_Witness ==
  \E c \in CallIds :
    /\ Rejected(c) /\ Done(c)
    /\ ~Falsy(invocation[c].password)
    /\ Len(base64ToArrayBuffer(invocation[c].package.salt).val) = SALT_LENGTH
    /\ Len(base64ToArrayBuffer(invocation[c].package.iv).val) = IV_LENGTH + 1
    /\ platform = FullPlatform

(***************************************************************************)
(* SpecChecksum: one call of calculateChecksum, one loop iteration a step. *)
(* The hash is kept as a number <<hi, lo>>, together with its value before *)
(* the latest iteration.                                                   *)
(***************************************************************************)
MaxChecksumChars == 6
ChecksumChars == {0, 97, 65535}
ChecksumPackages == {p \in Packages : p.salt = p.iv /\ p.iv = p.tag}
ChecksumInputs ==
  SeqsUpTo(ChecksumChars, MaxChecksumChars)
    \cup {JSONstringify(p) : p \in ChecksumPackages}

InitChecksum ==
  /\ variant \in Variants
  /\ platform = FullPlatform
  /\ \E d \in ChecksumInputs :
       checksumRun = [NoRun EXCEPT !.data = d]
  /\ CodecIdle
  /\ FrameIdle
  /\ CryptoIdle
  /\ AppIdle
  /\ CallsIdle
  /\ TablesIdle
  /\ FormatIdle

checksumRest ==
  <<variant, platform, codecVars, frameVars, cryptoVars, appVars, callVars,
    tableVars, formatRun>>

\* One pass of the loop body: i < data.length
ChecksumIteration ==
  /\ ~Called(checksumRun.returned)
  /\ checksumRun.i < Len(checksumRun.data)
  /\ checksumRun' =
       [checksumRun EXCEPT
          !.i = checksumRun.i + 1,
          !.before = checksumRun.hash,
          !.hash = ChecksumStepNumber(checksumRun.hash,
                                      checksumRun.data[checksumRun.i + 1])]
  /\ UNCHANGED checksumRest

\* return hash.toString(16)
ChecksumReturn ==
  /\ ~Called(checksumRun.returned)
  /\ checksumRun.i = Len(checksumRun.data)
  /\ checksumRun' =
       [checksumRun EXCEPT
          !.returned = Ok(ToString16(FromInt32(checksumRun.hash)))]
  /\ UNCHANGED checksumRest

NextChecksum == ChecksumIteration \/ ChecksumReturn

SpecChecksum == InitChecksum /\ [][NextChecksum]_vars

\* 31 * n + char, wrapped to a signed 32-bit integer
Times31Plus(n, char) ==
  LET lo == 31 * n[2] + char
  IN  ToInt32(<<31 * n[1] + (lo \div 65536), lo % 65536>>)

\* C24: the hash starts at 0 and is a signed 32-bit integer after every
\* iteration, equal to 31 times the hash before plus the character code,
\* wrapped to 32 bits; the string returned is the one calculateChecksum gives
\* for the data wherever it is called, so for the JSON text of a package the
\* checksum encodeToEmojis writes is the one returned here, and
\* decodeFromEmojis, which recomputes it when it has recovered the text, does
\* not report an integrity failure.
C24_ChecksumHash ==
  /\ IsInt32(checksumRun.hash)
  /\ checksumRun.i = 0 => checksumRun.hash = <<0, 0>>
  /\ checksumRun.i > 0 =>
       checksumRun.hash =
         Times31Plus(checksumRun.before, checksumRun.data[checksumRun.i])
  /\ Called(checksumRun.returned) =>
       /\ checksumRun.returned = Ok(calculateChecksum(checksumRun.data))
       /\ \A p \in ChecksumPackages :
            checksumRun.data = JSONstringify(p) =>
              \A written \in {encodeToEmojis(variant, p)} :
                /\ written.ok
                /\ written.val.metadata.checksum = checksumRun.returned.val
                /\ decodeFromEmojis(variant, written.val) # Err(IntegrityMismatch)

\* A hash that has wrapped to a negative value has been returned.
C24_Witness ==
  /\ Called(checksumRun.returned)
  /\ checksumRun.hash[1] < 0
  /\ checksumRun.returned.val[1] = 45
  /\ Len(checksumRun.data) = MaxChecksumChars

(***************************************************************************)
(* SpecFormat: one call of formatEmojisForDisplay, one loop iteration a    *)
(* step.  groupSize is any integer the caller passes.  The loop runs       *)
(* without interruption, so a step that can be taken is taken.             *)
(***************************************************************************)
\* The group sizes a caller passes: negative, zero and positive integers.
GroupSizes == -1..MaxGroupSize
FormatInputs == SymbolStrings \cup {<<>>, WithVariationSelector(18)}

\* The model records the first MaxPushes iterations; a call on one of the
\* inputs with groupSize >= 1 needs fewer.  Of the iterations beyond, which
\* push one more empty slice each and leave i below emojiArray.length, it
\* records only that they happen: `beyond` flips.
MaxPushes == MaxSymbols + 2

\* Array.prototype.slice(start, end)
Slice(array, start, end) ==
  LET n == Len(array)
      from == IF start < 0 THEN (IF n + start < 0 THEN 0 ELSE n + start)
              ELSE Min2(start, n)
      to == IF end < 0 THEN (IF n + end < 0 THEN 0 ELSE n + end)
            ELSE Min2(end, n)
  IN  SubSeq(array, from + 1, to)

\* Array.prototype.join(separator)
Join(strings, separator) ==
  Flatten([j \in 1..(2 * Len(strings) - 1) |->
             IF j % 2 = 1 THEN strings[(j + 1) \div 2] ELSE separator])

InitFormat ==
  /\ variant = "lib"
  /\ platform = FullPlatform
  /\ \E s \in FormatInputs, g \in GroupSizes :
       formatRun = [NoFormat EXCEPT !.emojiArray = ArrayFrom(s),
                                    !.groupSize = g]
  /\ CodecIdle
  /\ FrameIdle
  /\ CryptoIdle
  /\ AppIdle
  /\ CallsIdle
  /\ TablesIdle
  /\ ChecksumIdle

formatRest ==
  <<variant, platform, codecVars, frameVars, cryptoVars, appVars, callVars,
    tableVars, checksumRun>>

\* The loop body and i += groupSize, entered when i < emojiArray.length
FormatIteration ==
  /\ ~Called(formatRun.returned)
  /\ formatRun.i < Len(formatRun.emojiArray)
  /\ IF Len(formatRun.groups) < MaxPushes
     THEN formatRun' =
            [formatRun EXCEPT
               !.groups =
                 Append(formatRun.groups,
                        Flatten(Slice(formatRun.emojiArray, formatRun.i,
                                      formatRun.i + formatRun.groupSize))),
               !.i = formatRun.i + formatRun.groupSize]
     ELSE /\ formatRun.groupSize <= 0
          /\ formatRun' = [formatRun EXCEPT !.beyond = 1 - formatRun.beyond]
  /\ UNCHANGED formatRest

\* return groups.join(' ')
FormatReturn ==
  /\ ~Called(formatRun.returned)
  /\ formatRun.i >= Len(formatRun.emojiArray)
  /\ formatRun' = [formatRun EXCEPT !.returned = Ok(Join(formatRun.groups, <<32>>))]
  /\ UNCHANGED formatRest

NextFormat == FormatIteration \/ FormatReturn

SpecFormat ==
  InitFormat /\ [][NextFormat]_vars
    /\ WF_vars(FormatIteration) /\ WF_vars(FormatReturn)

\* What a call with groupSize >= 1 has returned: the symbols in their order
\* in ceil(n / groupSize) groups, all of groupSize symbols except a shorter
\* last one, joined by single spaces, no space at either end.
FormatShape ==
  (Called(formatRun.returned) /\ formatRun.groupSize >= 1) =>
    \E n \in {Len(formatRun.emojiArray)}, g \in {formatRun.groupSize} :
      /\ formatRun.returned.val =
           formatEmojisForDisplay(Flatten(formatRun.emojiArray), g)
      /\ Len(formatRun.groups) = (n + g - 1) \div g
      /\ Flatten(formatRun.groups) = Flatten(formatRun.emojiArray)
      /\ \A k \in 1..Len(formatRun.groups) :
           /\ k < Len(formatRun.groups) => Len(formatRun.groups[k]) = g
           /\ Len(formatRun.groups[k]) \in 1..g
      /\ Len(formatRun.returned.val) = n + Len(formatRun.groups) - (IF n = 0 THEN 0 ELSE 1)
      /\ n > 0 => /\ formatRun.returned.val[1] # 32
                  /\ formatRun.returned.val[Len(formatRun.returned.val)] # 32

\* C25: every call of formatEmojisForDisplay returns, whatever integer the
\* group size is, and what a call with a group size of at least 1 returns
\* has the shape above.
C25_FormatTerminates == []FormatShape /\ <>Called(formatRun.returned)

\* Two calls of encryptText on plaintexts of the same UTF-8 length have
\* returned a package.
SameLengthEncrypted(c, d) ==
  /\ c # d
  /\ invocation[c].kind = "encryptText" /\ invocation[d].kind = "encryptText"
  /\ Done(c) /\ invocation[c].out.ok
  /\ Done(d) /\ invocation[d].out.ok
  /\ Len(TextEncode(invocation[c].text)) = Len(TextEncode(invocation[d].text))

\* The symbols of an emoji string as Array.from, getEmojiStats and the
\* decoder count them.
SymbolCount(emojiString) == Len(ArrayFrom(emojiString))

\* C26: for two plaintexts of the same UTF-8 length, whatever the passwords,
\* encodeToEmojis gives emoji strings with the same number of symbols for the
\* two packages of encryptText, and each string is the concatenation of the
\* alphabet symbols of the bytes of the encoded text, a byte's symbol being
\* the same at every position and for every password.
C26_LengthOnly ==
  \A c, d \in CallIds :
    SameLengthEncrypted(c, d) =>
      \A v \in Variants :
        \A ec \in {encodeToEmojis(v, invocation[c].out.val)},
           ed \in {encodeToEmojis(v, invocation[d].out.val)} :
          /\ ec.ok /\ ed.ok
          /\ SymbolCount(ec.val.emojis) = SymbolCount(ed.val.emojis)
          /\ \A b \in {JSONstringify(invocation[c].out.val)} :
               ec.val.emojis =
                 Flatten([k \in 1..Len(b) |-> EMOJI_ALPHABET(v)[b[k] + 1]])

(***************************************************************************)
(* SpecAppLive: the component with the promises of encryptText and         *)
(* decryptText settling: an awaited call that can resume does resume.      *)
(***************************************************************************)
\* ENABLED <<ResolveEncrypt>>_vars is pending.op = "encrypt": the step sets
\* pending to NoOp.  Weak fairness of ResolveEncrypt, with that written out.
ResolveEncryptFair ==
  \/ []<>(pending.op # "encrypt")
  \/ []<><<pending.op = "encrypt" /\ pending' = NoOp /\ ResolveEncrypt>>_vars

SpecAppLive ==
  InitApp /\ [][NextApp]_vars
    /\ ResolveEncryptFair /\ WF_vars(ResolveDecrypt)

\* handleEncrypt or handleDecrypt returns from one of its three checks.
ValidationRejects ==
  \/ /\ mode = "encrypt"
     /\ (TrimIsEmpty(inputText) \/ password = <<>> \/ ~platform.subtle)
     /\ HandleEncrypt
  \/ /\ mode = "decrypt"
     /\ (TrimIsEmpty(result) \/ password = <<>> \/ ~platform.subtle)
     /\ HandleDecrypt

\* C27: whenever isProcessing is true it becomes false again, whether the
\* awaited operation succeeds or fails, and a handleEncrypt or handleDecrypt
\* call that its input validation rejects leaves isProcessing false.
C27_ProcessingEnds ==
  /\ isProcessing ~> ~isProcessing
  /\ [][ValidationRejects => (~isProcessing /\ ~isProcessing')]_vars

\* A call is awaiting an operation that is going to fail.
C27_Witness ==
  /\ isProcessing
  /\ pending.op = "decrypt"
  /\ ~pending.outcome.ok

\* A click on the action button runs handleEncrypt or handleDecrypt.
ActionButtonClicked ==
  \/ mode = "encrypt" /\ HandleEncrypt
  \/ mode = "decrypt" /\ HandleDecrypt

\* C28: isProcessing is true exactly while an encryptText or decryptText call
\* of a handler is awaited, the action button is disabled in such a state,
\* and no step taken from such a state is a handleEncrypt or handleDecrypt
\* call, in whichever mode the component is by then.
C28_OneInFlight ==
  /\ [](/\ isProcessing <=> pending.op # "none"
        /\ pending.op # "none" => ActionButtonDisabled(isProcessing))
  /\ [][pending.op # "none" => ~ActionButtonClicked]_vars

\* An encryption is awaited and the component has been switched to decrypt
\* mode, with an emoji text and a password ready.
C28_Witness ==
  /\ pending.op = "encrypt"
  /\ mode = "decrypt"
  /\ ~TrimIsEmpty(result)
  /\ password # <<>>

\* The awaited call of a handler completes in the mode the handler was not
\* started in: handleModeChange ran in between.
CompletesInOtherMode ==
  /\ pending.op # "none" /\ pending'.op = "none"
  /\ \/ pending.op = "encrypt" /\ mode = "decrypt"
     \/ pending.op = "decrypt" /\ mode = "encrypt"

\* C29: when handleModeChange has run while a handleEncrypt or handleDecrypt
\* call was awaiting, the completion of that call writes none of result,
\* emojiStats, inputText, error and success.
C29_ModeSwitchDiscards ==
  [][CompletesInOtherMode
       => UNCHANGED <<result, emojiStats, inputText, error, success>>]_vars

\* A handleDecrypt call fails in decrypt mode, where inputText is the output
\* field: before its await on the emoji text, or when decryptText rejects.
DecryptFails ==
  \/ /\ mode = "decrypt" /\ pending.op = "decrypt" /\ pending'.op = "none"
     /\ ~pending.outcome.ok
  \/ /\ mode = "decrypt" /\ pending.op = "none" /\ pending'.op = "none"
     /\ ~TrimIsEmpty(result) /\ password # <<>> /\ platform.subtle
     /\ HandleDecrypt

\* The status line has an error or a success message, not both.
OneMessage == ~(error # "" /\ success # "")

\* After a failed handleDecrypt call inputText holds no decrypted text.
NoTextAfterFailure == [][DecryptFails => inputText' = <<>>]_vars

\* C30: in every reachable state error and success are not both non-empty,
\* and a handleDecrypt call that fails leaves inputText empty, also when an
\* earlier call had decrypted another input.
C30_NoResultAfterFailure == []OneMessage /\ NoTextAfterFailure
====
